---- MODULE Spec2Model ----
(***************************************************************************)
(* Ingestion-and-aggregation pipeline of the bike-station reliability      *)
(* service: the station repository's aggregation engine                    *)
(* (app/repositories/station_repository.py), the data seeder               *)
(* (app/services/mevo_data_seeder.py) and the background scheduler         *)
(* (app/services/background_scheduler.py).                                 *)
(*                                                                         *)
(* Conventions.  A timestamp is a calendar day number plus an hour and a   *)
(* minute; day 1 is a Monday.  Decimal values with two places (percentages,*)
(* averages) are kept as integers in hundredths: 16.67 is 1667.            *)
(* The store is the remote database the repository talks to: every         *)
(* .execute() is one request, and a request either answers or raises.      *)
(***************************************************************************)
EXTENDS Integers, Sequences, FiniteSets, TLC

VARIABLES
    today,                          \* date.today() of the server
    availability_snapshots,         \* table: sequence of rows, in insertion order
    reliability_scores,             \* table: set of rows with id
    hourly_availability_averages,   \* table: set of rows with id
    next_score_id,                  \* serial of reliability_scores.id
    next_average_id,                \* serial of hourly_availability_averages.id
    bike_stations,                  \* table: set of rows with id
    next_station_id,                \* serial of bike_stations.id
    api_sync_logs,                  \* table: sequence of rows, in insertion order
    last_call,                      \* the aggregation call that returned last
    prev_scores,                    \* reliability_scores before that call
    prev_averages,                  \* hourly_availability_averages before that call
    last_run,                       \* the seeder run that returned last
    runs,                           \* seeder runs so far
    passes,                         \* per store client: its aggregation pass in progress
    is_running,                     \* BackgroundScheduler.is_running
    scheduler,                      \* BackgroundScheduler.scheduler
    executions,                     \* running executions of _collect_station_status
    tasks,                          \* running _update_hourly_averages_async tasks
    fired,                          \* firings of the interval trigger so far
    started,                        \* executions the scheduler started so far
    skipped,                        \* firings that started no execution so far
    triggers,                       \* trigger_job calls so far
    last_cycle,                     \* the _collect_station_status that returned last
    last_pass,                      \* the _update_hourly_averages_async that ended last
    client                          \* a MevoApiClient: its session and its fetches

aggregateTables == <<reliability_scores, hourly_availability_averages,
                     next_score_id, next_average_id>>
directoryTables == <<bike_stations, next_station_id>>
storeVars == <<availability_snapshots, aggregateTables, directoryTables, api_sync_logs>>
aggVars == <<last_call, prev_scores, prev_averages>>
seederVars == <<last_run, runs>>
schedVars == <<is_running, scheduler, executions, tasks, fired, started, skipped, triggers,
              last_cycle, last_pass>>
vars == <<today, storeVars, aggVars, seederVars, passes, schedVars, client>>

----------------------------------------------------------------------------
(* Bounds of the model *)

\* Rows of availability_snapshots the initial store holds at most.
MaxSnapshots == 6
\* The last day the server's clock reaches.
MaxToday == 8

(* Program constants *)

\* "if data['total_snapshots'] < 5: continue"
MinSampleSize == 5

----------------------------------------------------------------------------
(* Time-derived fields of a snapshot *)

\* datetime.isoweekday(): 1 = Monday .. 7 = Sunday
isoweekday(day) == ((day - 1) % 7) + 1

\* A minute_slot that is the number of the quarter, not its first minute.
MinuteSlotIndex(minute) == minute \div 15

\* minute_slot = (timestamp.minute // 15) * 15
MinuteSlot(minute) == (minute \div 15) * 15

\* One availability_snapshots row as the seeder builds it at the timestamp
\* of its cycle.
PrepareSnapshot(station_id, available_bikes, timestamp) ==
    [station_id |-> station_id, available_bikes |-> available_bikes,
     timestamp |-> timestamp,
     day_of_week |-> isoweekday(timestamp.day), hour |-> timestamp.hour,
     minute_slot |-> MinuteSlot(timestamp.minute)]

\* The same at the full hour.
AvailabilitySnapshotCreate(station_id, available_bikes, day, hour) ==
    PrepareSnapshot(station_id, available_bikes, [day |-> day, hour |-> hour, minute |-> 0])

\* 'weekday' if row['day_of_week'] in [1, 2, 3, 4, 5] else 'weekend'
DayTypeOf(day_of_week) ==
    IF day_of_week \in {1, 2, 3, 4, 5} THEN "weekday" ELSE "weekend"

\* Decimal(f"{num / den:.2f}") in hundredths: correctly rounded, ties to even.
\* (A tie needs den to be a multiple of 32; the float quotient is then exact.)
Round2(num, den) ==
    LET q == (100 * num) \div den
        r == (100 * num) % den
    IN  IF 2 * r > den \/ (2 * r = den /\ q % 2 = 1) THEN q + 1 ELSE q

----------------------------------------------------------------------------
(* Grouping of snapshot rows by (hour, day_type) *)

GroupKey(row) == <<row.hour, DayTypeOf(row.day_of_week)>>

EmptyGroup == [total_snapshots |-> 0, bikes_available_count |-> 0, total_bikes |-> 0]

NoGroups == [keys |-> <<>>, data |-> <<>>]

\* bikes_available_count counts the rows with available_bikes > 0
HasBikes(row) == row.available_bikes > 0

\* The loop "for row in result.data": grouped_data as a dict, keys in the
\* order of their first row.
RECURSIVE GroupRows(_, _)
GroupRows(rows, acc) ==
    IF rows = <<>> THEN acc
    ELSE LET row == Head(rows)
             key == GroupKey(row)
             isNew == key \notin DOMAIN acc.data
             old == IF isNew THEN EmptyGroup ELSE acc.data[key]
             new == [total_snapshots |-> old.total_snapshots + 1,
                     bikes_available_count |->
                         old.bikes_available_count + (IF HasBikes(row) THEN 1 ELSE 0),
                     total_bikes |-> old.total_bikes + row.available_bikes]
         IN  GroupRows(Tail(rows),
                 [keys |-> IF isNew THEN Append(acc.keys, key) ELSE acc.keys,
                  data |-> [k \in (DOMAIN acc.data) \cup {key} |->
                               IF k = key THEN new ELSE acc.data[k]]])

\* A threshold off by one: groups of four pass.
TooFewSamplesOffByOne(total_snapshots) == total_snapshots < MinSampleSize - 1

\* "if data['total_snapshots'] < 5: continue"
TooFewSamples(total_snapshots) == total_snapshots < MinSampleSize

\* The keys of grouped_data that are not skipped, in dict order.
KeptKeys(grouped) ==
    SelectSeq(grouped.keys, LAMBDA k : ~TooFewSamples(grouped.data[k].total_snapshots))

----------------------------------------------------------------------------
(* Reliability scores *)

\* The select without its .gte('timestamp', ...) filter.
InWindowNoStart(row, station_id, start_date, end_date) ==
    /\ row.station_id = station_id
    /\ row.timestamp.day <= end_date

\* .eq('station_id', id).gte('timestamp', start T00:00:00).lte('timestamp', end T23:59:59)
InWindow(row, station_id, start_date, end_date) ==
    /\ row.station_id = station_id
    /\ row.timestamp.day >= start_date
    /\ row.timestamp.day <= end_date

SelectWindow(table, station_id, start_date, end_date) ==
    SelectSeq(table, LAMBDA row : InWindow(row, station_id, start_date, end_date))

\* (bikes_available_count / total_snapshots) * 100, formatted with two places
ReliabilityPercentage(data) == Round2(100 * data.bikes_available_count, data.total_snapshots)

\* total_bikes / total_snapshots, formatted with two places
AvgBikes(data) == Round2(data.total_bikes, data.total_snapshots)

ReliabilityScoreCreate(station_id, key, data, start_date, end_date) ==
    [station_id |-> station_id, hour |-> key[1], day_type |-> key[2],
     reliability_percentage |-> ReliabilityPercentage(data),
     avg_available_bikes |-> AvgBikes(data),
     sample_size |-> data.total_snapshots,
     data_period_start |-> start_date, data_period_end |-> end_date]

\* The score_data records _calculate_station_reliability upserts, in order.
StationScores(table, station_id, start_date, end_date) ==
    LET grouped == GroupRows(SelectWindow(table, station_id, start_date, end_date), NoGroups)
        kept == KeptKeys(grouped)
    IN  [i \in 1..Len(kept) |->
            ReliabilityScoreCreate(station_id, kept[i], grouped.data[kept[i]],
                                   start_date, end_date)]

----------------------------------------------------------------------------
(* Upsert: select the row id by (station_id, hour, day_type), then update   *)
(* by that id or insert.  Used for both aggregate tables.                  *)

SameKey(r, d) ==
    r.station_id = d.station_id /\ r.hour = d.hour /\ r.day_type = d.day_type

\* existing = table.select('id').eq(station_id).eq(hour).eq(day_type)
ExistingIds(table, d) == {r.id : r \in {x \in table : SameKey(x, d)}}

\* existing.data[0]['id']: rows come back in id order
FirstId(ids) == CHOOSE i \in ids : \A j \in ids : i <= j

WithId(d, id) == [id |-> id] @@ d

\* An upsert that ignores what the select found and always inserts.
UpsertWriteInsertOnly(st, existing, d) ==
    [table |-> st.table \cup {WithId(d, st.next_id)}, next_id |-> st.next_id + 1]

\* An upsert that leaves the row it found as it is.
UpsertWriteKeepsRow(st, existing, d) ==
    IF existing # {}
    THEN st
    ELSE [table |-> st.table \cup {WithId(d, st.next_id)},
          next_id |-> st.next_id + 1]

\* "if existing.data: update(...).eq('id', ...) else: insert(...)"
UpsertWrite(st, existing, d) ==
    IF existing # {}
    THEN [table |-> {IF r.id = FirstId(existing) THEN WithId(d, r.id) ELSE r : r \in st.table},
          next_id |-> st.next_id]
    ELSE [table |-> st.table \cup {WithId(d, st.next_id)},
          next_id |-> st.next_id + 1]

\* The store's column reliability_scores.calculated_at: the payload of the
\* upsert never carries it, the store sets it to the time of the write that
\* made or updated the row.
StampCalculatedAt(table, now) ==
    {IF "calculated_at" \in DOMAIN r THEN r ELSE [calculated_at |-> now] @@ r : r \in table}

\* One whole upsert call, its two requests back to back.
Upsert(st, d) == UpsertWrite(st, ExistingIds(st.table, d), d)

\* The first n upserts of the loop over ds (the loop stops at the first that raises).
RECURSIVE UpsertFirst(_, _, _)
UpsertFirst(st, ds, n) ==
    IF n = 0 \/ ds = <<>> THEN st
    ELSE UpsertFirst(Upsert(st, Head(ds)), Tail(ds), n - 1)

----------------------------------------------------------------------------
(* Hourly averages *)

\* The store-side procedure 'calculate_hourly_averages': one row per
\* (hour, day_type) of all the station's snapshots.
StationRows(table, station_id) == SelectSeq(table, LAMBDA row : row.station_id = station_id)

RpcCalculateHourlyAverages(table, station_id) ==
    LET grouped == GroupRows(StationRows(table, station_id), NoGroups)
    IN  [i \in 1..Len(grouped.keys) |->
            [hour |-> grouped.keys[i][1], day_type |-> grouped.keys[i][2],
             total_bikes |-> grouped.data[grouped.keys[i]].total_bikes,
             total_snapshots |-> grouped.data[grouped.keys[i]].total_snapshots]]

HourlyAvailabilityAverageCreate(station_id, hour, day_type, total_bikes, total_snapshots) ==
    [station_id |-> station_id, hour |-> hour, day_type |-> day_type,
     avg_bikes_available |-> Round2(total_bikes, total_snapshots),
     total_snapshots |-> total_snapshots]

\* calculate_hourly_averages, the fast path: the rows of the procedure that
\* are not skipped.
FastAverages(table, station_id) ==
    LET rows == SelectSeq(RpcCalculateHourlyAverages(table, station_id),
                          LAMBDA row : ~TooFewSamples(row.total_snapshots))
    IN  [i \in 1..Len(rows) |->
            HourlyAvailabilityAverageCreate(station_id, rows[i].hour, rows[i].day_type,
                                            rows[i].total_bikes, rows[i].total_snapshots)]

\* A classification that takes Saturday for a weekday.
FallbackDayTypeOfSixDays(day_of_week) ==
    IF day_of_week \in {1, 2, 3, 4, 5, 6} THEN "weekday" ELSE "weekend"

\* The fallback's own
\* 'weekday' if row['day_of_week'] in [1, 2, 3, 4, 5] else 'weekend'
FallbackDayTypeOf(day_of_week) ==
    IF day_of_week \in {1, 2, 3, 4, 5} THEN "weekday" ELSE "weekend"

\* The fallback's own loop "for row in result.data": grouped_data with
\* total_snapshots and total_bikes per (hour, day_type).
RECURSIVE FallbackGroupRows(_, _)
FallbackGroupRows(rows, acc) ==
    IF rows = <<>> THEN acc
    ELSE LET row == Head(rows)
             key == <<row.hour, FallbackDayTypeOf(row.day_of_week)>>
             isNew == key \notin DOMAIN acc.data
             old == IF isNew THEN [total_snapshots |-> 0, total_bikes |-> 0]
                    ELSE acc.data[key]
             new == [total_snapshots |-> old.total_snapshots + 1,
                     total_bikes |-> old.total_bikes + row.available_bikes]
         IN  FallbackGroupRows(Tail(rows),
                 [keys |-> IF isNew THEN Append(acc.keys, key) ELSE acc.keys,
                  data |-> [k \in (DOMAIN acc.data) \cup {key} |->
                               IF k = key THEN new ELSE acc.data[k]]])

\* A fallback that upserts every key it grouped, whatever its sample size.
FallbackAveragesUnfiltered(table, station_id) ==
    LET grouped == FallbackGroupRows(StationRows(table, station_id), NoGroups)
    IN  [i \in 1..Len(grouped.keys) |->
            HourlyAvailabilityAverageCreate(station_id, grouped.keys[i][1], grouped.keys[i][2],
                                            grouped.data[grouped.keys[i]].total_bikes,
                                            grouped.data[grouped.keys[i]].total_snapshots)]

\* _calculate_hourly_averages_fallback: all raw snapshots grouped client-side.
FallbackAverages(table, station_id) ==
    LET grouped == FallbackGroupRows(StationRows(table, station_id), NoGroups)
        kept == KeptKeys(grouped)
    IN  [i \in 1..Len(kept) |->
            HourlyAvailabilityAverageCreate(station_id, kept[i][1], kept[i][2],
                                            grouped.data[kept[i]].total_bikes,
                                            grouped.data[kept[i]].total_snapshots)]

----------------------------------------------------------------------------
(* The stations and the snapshots the initial store may hold *)

Stations == {1, 2}

\* window lengths passed as days_back (valid: 1..365)
DaysBack == {1, 2}

\* Day 5 is a Friday, 6 a Saturday, 7 a Sunday.
SnapshotKinds ==
    << AvailabilitySnapshotCreate(1, 1, 5, 8),
       AvailabilitySnapshotCreate(1, 0, 6, 8),
       AvailabilitySnapshotCreate(1, 2, 6, 8),
       AvailabilitySnapshotCreate(1, 1, 6, 9),
       AvailabilitySnapshotCreate(2, 1, 6, 8),
       AvailabilitySnapshotCreate(1, 3, 7, 8) >>

RECURSIVE SumTo(_, _)
SumTo(cnt, i) == IF i = 0 THEN 0 ELSE cnt[i] + SumTo(cnt, i - 1)

RECURSIVE Expand(_, _)
Expand(cnt, i) ==
    IF i > Len(SnapshotKinds) THEN <<>>
    ELSE [j \in 1..cnt[i] |-> SnapshotKinds[i]] \o Expand(cnt, i + 1)

NoRun == [op |-> "none"]

\* self.scheduler = None
NoScheduler == [exists |-> FALSE, jobs |-> {}, instances |-> 0]

\* BackgroundScheduler.__init__, with the bookkeeping at zero
\* No collection cycle has returned yet.
NoCycle == [returned |-> FALSE, requests |-> <<>>, success |-> FALSE, spawned |-> 0,
            result |-> [success |-> FALSE]]

\* No recompute pass has ended yet.
NoPass == [outcome |-> "none", listed |-> 0, completed |-> 0, failures |-> 0,
           errors |-> 0, batches |-> 0, sleeps |-> 0, escaped |-> FALSE]

\* A record of a feed document as response.json() hands it over: a JSON
\* object with the keys it has, or another JSON value (null, a string).
JsonObject(keys, station_id, capacity, num_bikes_available) ==
    [mapping |-> TRUE, keys |-> keys, station_id |-> station_id,
     capacity |-> capacity, num_bikes_available |-> num_bikes_available]

JsonNull == [mapping |-> FALSE, keys |-> {}, station_id |-> "", capacity |-> 0,
             num_bikes_available |-> 0]

\* The body of a response: whether it is JSON at all, whether the document
\* has the key 'data', whether data has the key 'stations', the records
\* under it, and whether data makes a MevoSystemInfo.
Body(json_ok, has_data, has_stations, stations, system_ok) ==
    [json_ok |-> json_ok, has_data |-> has_data, has_stations |-> has_stations,
     stations |-> stations, system_ok |-> system_ok]

NoBody == Body(FALSE, FALSE, FALSE, <<>>, FALSE)

\* What the feed server does to one GET: no answer (httpx.RequestError), or a
\* response with a status code and a body.
Response(network_ok, status_code, body) ==
    [network_ok |-> network_ok, status_code |-> status_code, body |-> body]

NoResponse == Response(FALSE, 0, NoBody)

NoFetch == [operation |-> "none", session |-> "none", response |-> NoResponse,
            raised |-> "none", data |-> <<>>, requests |-> 0]

\* No get_combined_station_data has returned yet.
NoCombined == [called |-> FALSE, session |-> "none", raised |-> "none",
               stations |-> <<>>, statuses |-> <<>>, data |-> <<>>, requests |-> 0]

\* MevoApiClient.__init__: self._session = None.  The client is kept with the
\* fetch it returned from last, the get_combined_station_data it returned from
\* last and the GETs it has issued.
NewClient == [session |-> "none", requests |-> 0, calls |-> 0, last |-> NoFetch,
              combined |-> NoCombined]

SchedulerConstructed ==
    /\ is_running = FALSE
    /\ scheduler = NoScheduler
    /\ executions = <<>>
    /\ last_cycle = NoCycle
    /\ last_pass = NoPass
    /\ tasks = <<>>
    /\ fired = 0
    /\ started = 0
    /\ skipped = 0
    /\ triggers = 0

\* The processes that run the service against the one store.
Clients == {1, 2}

Idle == [pc |-> "idle"]

NoPasses == [c \in Clients |-> Idle]

NoCall == [kind |-> "none", station_id |-> 0, start_date |-> 0, end_date |-> 0,
           ok |-> FALSE, repeat |-> FALSE, rpc |-> TRUE, raised |-> "none"]

InitAgg ==
    /\ today = 7
    /\ \E cnt \in [1..Len(SnapshotKinds) -> 0..MaxSnapshots] :
          /\ SumTo(cnt, Len(SnapshotKinds)) <= MaxSnapshots
          /\ availability_snapshots = Expand(cnt, 1)
    /\ reliability_scores = {}
    /\ hourly_availability_averages = {}
    /\ next_score_id = 1
    /\ next_average_id = 1
    /\ last_call = NoCall
    /\ prev_scores = {}
    /\ prev_averages = {}
    /\ bike_stations = {[id |-> s, external_station_id |-> <<"station", s>>,
                         total_docks |-> 10, is_active |-> TRUE] : s \in Stations}
    /\ next_station_id = Cardinality(Stations) + 1
    /\ api_sync_logs = <<>>
    /\ last_run = NoRun
    /\ runs = 0
    /\ passes = NoPasses
    /\ client = NewClient
    /\ SchedulerConstructed

----------------------------------------------------------------------------
(* Aggregation calls, each run to its return: the repository's store        *)
(* client is blocking, so a call never yields to another coroutine.        *)

\* The clock passes midnight.
Tick ==
    /\ today < MaxToday
    /\ today' = today + 1
    /\ UNCHANGED <<client, storeVars, aggVars, seederVars, passes, schedVars>>

Call(kind, station_id, start_date, end_date, ok) ==
    [kind |-> kind, station_id |-> station_id, start_date |-> start_date,
     end_date |-> end_date, ok |-> ok, rpc |-> TRUE, raised |-> "none",
     repeat |-> /\ ok
                /\ last_call.ok
                /\ last_call.kind = kind
                /\ last_call.station_id = station_id
                /\ last_call.start_date = start_date
                /\ last_call.end_date = end_date]

\* Bookkeeping: the call that returned, and the aggregate tables it started
\* from when it repeats the call before it.
\* A calculate_hourly_averages call; rpc: whether the procedure answered.
HourlyCall(station_id, rpc, ok) ==
    [Call("hourly", station_id, 0, 0, ok) EXCEPT !.rpc = rpc]

\* A call that raised leaves its kind, its station and whether the procedure
\* had answered; it counts as no call for a repetition.
Raised(call) ==
    [NoCall EXCEPT !.raised = call.kind, !.station_id = call.station_id, !.rpc = call.rpc]

Returned(call) ==
    /\ last_call' = IF call.ok THEN call ELSE Raised(call)
    /\ prev_scores' = IF call.repeat THEN reliability_scores ELSE {}
    /\ prev_averages' = IF call.repeat THEN hourly_availability_averages ELSE {}

\* calculate_reliability_scores(station_id, days_back) for one station:
\* _calculate_station_reliability(station_id, today - days_back, today).
\* n upserts answer; with raises, the select or upsert n + 1 raises.
CalculateStationReliability(station_id, days_back) ==
    \E scores \in {StationScores(availability_snapshots, station_id, today - days_back, today)} :
    \E n \in 0..Len(scores), raises \in BOOLEAN :
        /\ raises => (n < Len(scores) \/ n = 0)
        /\ ~raises => n = Len(scores)
        /\ \E st \in {UpsertFirst([table |-> reliability_scores, next_id |-> next_score_id],
                                  scores, n)} :
              /\ reliability_scores' = StampCalculatedAt(st.table, today)
              /\ next_score_id' = st.next_id
        /\ Returned(Call("reliability", station_id, today - days_back, today, ~raises))
        /\ UNCHANGED <<today, client, availability_snapshots, hourly_availability_averages,
                       next_average_id, directoryTables, api_sync_logs, seederVars, passes, schedVars>>

\* calculate_hourly_averages(station_id), every way it can end.  rpc: the
\* procedure call answers; n1 upserts of the fast path answer.  Any raise in
\* the fast path leads to the fallback, where n2 upserts answer and a raise
\* is re-raised to the caller.
HourlyAveragesOutcomes(snapshots, st, station_id) ==
    LET fast == FastAverages(snapshots, station_id)
        slow == FallbackAverages(snapshots, station_id)
        fastDone(c) == c.rpc /\ c.n1 = Len(fast)
    IN  {[st |-> UpsertFirst(UpsertFirst(st, fast, c.n1), slow, c.n2), raises |-> c.raises,
          rpc |-> c.rpc] :
            c \in {c \in [rpc : BOOLEAN, n1 : 0..Len(fast), n2 : 0..Len(slow),
                          raises : BOOLEAN] :
                      /\ ~c.rpc => c.n1 = 0
                      /\ fastDone(c) => (c.n2 = 0 /\ ~c.raises)
                      /\ (~fastDone(c) /\ c.raises) => (c.n2 < Len(slow) \/ c.n2 = 0)
                      /\ (~fastDone(c) /\ ~c.raises) => c.n2 = Len(slow)}}

\* await repo.calculate_hourly_averages(station_id)
CalculateHourlyAverages(station_id) ==
    /\ \E o \in HourlyAveragesOutcomes(availability_snapshots,
                                       [table |-> hourly_availability_averages,
                                        next_id |-> next_average_id], station_id) :
          /\ hourly_availability_averages' = o.st.table
          /\ next_average_id' = o.st.next_id
          /\ Returned(HourlyCall(station_id, o.rpc, ~o.raises))
    /\ UNCHANGED <<today, client, availability_snapshots, reliability_scores, next_score_id,
                   directoryTables, api_sync_logs, seederVars, passes, schedVars>>

NextAgg ==
    \/ Tick
    \/ \E s \in Stations, d \in DaysBack : CalculateStationReliability(s, d)
    \/ \E s \in Stations : CalculateHourlyAverages(s)

SpecAgg == InitAgg /\ [][NextAgg]_vars

----------------------------------------------------------------------------
(* Aggregation passes of two clients of the store, request by request.     *)
(* Inside one process a pass runs without yielding (SpecAgg); the requests  *)
(* of two processes reach the store in any order.                          *)

InitPasses == InitAgg

\* The pass reads the snapshots and groups them; the upserts are to follow.
BeginPass(c, table, score_datas) ==
    /\ passes[c] = Idle
    /\ score_datas # <<>>
    /\ passes' = [passes EXCEPT ![c] = [pc |-> "select", table |-> table,
                                        datas |-> score_datas, existing |-> {}]]
    /\ UNCHANGED <<today, client, storeVars, aggVars, seederVars, schedVars>>

\* _calculate_station_reliability up to its first upsert
BeginReliabilityPass(c, station_id, days_back) ==
    BeginPass(c, "reliability_scores",
              StationScores(availability_snapshots, station_id, today - days_back, today))

\* calculate_hourly_averages up to its first upsert
BeginAveragesPass(c, station_id) ==
    BeginPass(c, "hourly_availability_averages",
              FastAverages(availability_snapshots, station_id))

\* existing = table.select('id').eq(...).execute()
SelectExisting(c) ==
    /\ passes[c].pc = "select"
    /\ passes' = [passes EXCEPT ![c].pc = "write",
                                ![c].existing =
                                    ExistingIds(IF passes[c].table = "reliability_scores"
                                                THEN reliability_scores
                                                ELSE hourly_availability_averages,
                                                Head(passes[c].datas))]
    /\ UNCHANGED <<today, client, storeVars, aggVars, seederVars, schedVars>>

\* table.update(...).eq('id', ...).execute() or table.insert(...).execute()
WriteRow(c) ==
    /\ passes[c].pc = "write"
    /\ passes' = [passes EXCEPT ![c] =
                     IF Len(passes[c].datas) = 1 THEN Idle
                     ELSE [passes[c] EXCEPT !.pc = "select", !.datas = Tail(@),
                                            !.existing = {}]]
    /\ IF passes[c].table = "reliability_scores"
       THEN \E st \in {UpsertWrite([table |-> reliability_scores, next_id |-> next_score_id],
                                   passes[c].existing, Head(passes[c].datas))} :
               /\ reliability_scores' = StampCalculatedAt(st.table, today)
               /\ next_score_id' = st.next_id
               /\ UNCHANGED <<hourly_availability_averages, next_average_id>>
       ELSE \E st \in {UpsertWrite([table |-> hourly_availability_averages,
                                    next_id |-> next_average_id],
                                   passes[c].existing, Head(passes[c].datas))} :
               /\ hourly_availability_averages' = st.table
               /\ next_average_id' = st.next_id
               /\ UNCHANGED <<reliability_scores, next_score_id>>
    /\ UNCHANGED <<today, client, availability_snapshots, directoryTables, api_sync_logs,
                   aggVars, seederVars, schedVars>>

NextPasses ==
    \/ \E c \in Clients, s \in Stations, d \in DaysBack : BeginReliabilityPass(c, s, d)
    \/ \E c \in Clients, s \in Stations : BeginAveragesPass(c, s)
    \/ \E c \in Clients : SelectExisting(c)
    \/ \E c \in Clients : WriteRow(c)

SpecPasses == InitPasses /\ [][NextPasses]_vars

----------------------------------------------------------------------------
(* The data seeder (app/services/mevo_data_seeder.py) *)

\* Runs of the seeder one behaviour holds at most.
MaxRuns == 2

\* What the feed client hands back: the parsed records, or MevoApiError raised.
Fetched(data) == [ok |-> TRUE, data |-> data]
MevoApiError == [ok |-> FALSE, data |-> <<>>]

MevoStation(station_id, capacity) == [station_id |-> station_id, capacity |-> capacity]

MevoStationStatus(station_id, num_bikes_available) ==
    [station_id |-> station_id, num_bikes_available |-> num_bikes_available]

NoStation == [id |-> 0]

NoLog == [sync_status |-> "none"]

\* stats['errors'].append(error_msg)
AddError(stats, error_msg) == [stats EXCEPT !.errors = Append(@, error_msg)]

ApiSyncLogCreate(sync_status, stations_updated, snapshots_created, errors) ==
    [sync_status |-> sync_status, stations_updated |-> stations_updated,
     snapshots_created |-> snapshots_created, error_message |-> errors]

\* An "except Exception" that returns the stats without recording the error.
OutcomeWithoutError(stats, log_attempts, log, escaped) ==
    [stats |-> stats, log_attempts |-> log_attempts, log |-> log]

\* Whether the run carries on or lands in "except Exception" of the caller.
Outcome(stats, log_attempts, log, escaped) ==
    [stats |-> IF escaped THEN AddError(stats, "unexpected") ELSE stats,
     log_attempts |-> log_attempts, log |-> log]

(* Station status sync *)

\* station_lookup.get(status.station_id): of rows with one external id the
\* dict keeps the last, rows coming back in id order.
StationLookup(stations, external_id) ==
    LET found == {s \in stations : s.external_station_id = external_id}
    IN  IF found = {} THEN NoStation
        ELSE CHOOSE s \in found : \A t \in found : t.id <= s.id

\* AvailabilitySnapshotCreate(...) validates available_bikes >= 0
ValidSnapshot(status) == status.num_bikes_available >= 0

\* A loop that reports a status of no persisted station as an error.
UnknownStationAsError(acc, status) == [acc EXCEPT !.stats = AddError(@, "unknown")]

\* "if not station: logger.warning(...); continue"
UnknownStation(acc, status) == acc

\* The loop "for status in station_statuses" of _process_station_statuses_batch.
RECURSIVE PrepareSnapshots(_, _, _, _)
PrepareSnapshots(station_statuses, stations, timestamp, acc) ==
    IF station_statuses = <<>> THEN acc
    ELSE LET status == Head(station_statuses)
             station == StationLookup(stations, status.station_id)
             next == IF station = NoStation THEN UnknownStation(acc, status)
                     ELSE IF ~ValidSnapshot(status)
                          THEN [acc EXCEPT !.stats = AddError(@, "prepare")]
                          ELSE [acc EXCEPT
                                  !.snapshots_to_create =
                                      Append(@, PrepareSnapshot(
                                                    station.id, status.num_bikes_available,
                                                    timestamp)),
                                  !.stats.stations_processed = @ + 1]
         IN  PrepareSnapshots(Tail(station_statuses), stations, timestamp, next)

\* A batch insert that fails after the store has kept the first row.
BatchInsertedKeepsFirst(snapshots_to_create, insert_ok) ==
    IF insert_ok THEN snapshots_to_create ELSE SubSeq(snapshots_to_create, 1, 1)

\* table('availability_snapshots').insert(insert_data).execute(): one request
\* for all rows; when it fails the store has kept none.
BatchInserted(snapshots_to_create, insert_ok) ==
    IF insert_ok THEN snapshots_to_create ELSE <<>>

\* _process_station_statuses_batch: raised when get_all_stations raises;
\* created holds the rows the batch insert added.
ProcessStationStatusesBatch(stats, station_statuses, timestamp, stations, lookup_ok, insert_ok) ==
    IF ~lookup_ok
    THEN [raised |-> TRUE, stats |-> stats, created |-> <<>>,
          requests |-> <<"get_all_stations">>]
    ELSE LET p == PrepareSnapshots(station_statuses, stations, timestamp,
                                   [stats |-> stats, snapshots_to_create |-> <<>>])
             inserted == BatchInserted(p.snapshots_to_create, insert_ok)
         IN  IF p.snapshots_to_create = <<>>
             THEN [raised |-> FALSE, stats |-> p.stats, created |-> <<>>,
                   requests |-> <<"get_all_stations">>]
             ELSE IF insert_ok
             THEN [raised |-> FALSE,
                   stats |-> [p.stats EXCEPT !.snapshots_created = @ + Len(inserted)],
                   created |-> inserted,
                   requests |-> <<"get_all_stations", "create_availability_snapshots_batch">>]
             ELSE [raised |-> FALSE, stats |-> AddError(p.stats, "batch"),
                   created |-> inserted,
                   requests |-> <<"get_all_stations", "create_availability_snapshots_batch">>]

\* A create_sync_log failure that gets past its "except Exception", as if
\* the write were not wrapped.
SyncLogWriteEscapesOnFailure(log_ok) == ~log_ok

\* try: create_sync_log(sync_log) / except Exception: logger.error(...)
SyncLogWriteEscapes(log_ok) == FALSE

\* The status with the roles of 'partial' and 'failed' exchanged.
SyncStatusOfSwapped(errors, snapshots_created) ==
    IF errors = <<>> THEN "success"
    ELSE IF snapshots_created > 0 THEN "failed" ELSE "partial"

\* SUCCESS if not errors else (PARTIAL if snapshots_created > 0 else FAILED)
SyncStatusOf(errors, snapshots_created) ==
    IF errors = <<>> THEN "success"
    ELSE IF snapshots_created > 0 THEN "partial" ELSE "failed"

\* sync_station_status from the answer of the feed to its return.
SyncStationStatusRun(stations, timestamp, feed, lookup_ok, insert_ok, log_ok) ==
    LET stats == [stations_processed |-> 0, snapshots_created |-> 0,
                  errors |-> <<>>, success |-> FALSE]
    IN  IF ~feed.ok
        THEN [created |-> <<>>, requests |-> <<"get_station_status">>] @@
             Outcome(AddError(stats, "api"), 0, NoLog, FALSE)
        ELSE LET b == ProcessStationStatusesBatch(stats, feed.data, timestamp, stations,
                                                  lookup_ok, insert_ok)
                 sync_status == SyncStatusOf(b.stats.errors, b.stats.snapshots_created)
                 sync_log == ApiSyncLogCreate(sync_status, b.stats.stations_processed,
                                              b.stats.snapshots_created, b.stats.errors)
                 fetched == <<"get_station_status">> \o b.requests
             IN  IF b.raised
                 THEN [created |-> <<>>, requests |-> fetched] @@
                      Outcome(b.stats, 0, NoLog, TRUE)
                 ELSE IF SyncLogWriteEscapes(log_ok)
                 THEN [created |-> b.created,
                       requests |-> Append(fetched, "create_sync_log")] @@
                      Outcome(b.stats, 1, sync_log, TRUE)
                 ELSE [created |-> b.created,
                       requests |-> Append(fetched, "create_sync_log")] @@
                      Outcome([b.stats EXCEPT !.success = sync_status \in {"success", "partial"}],
                              1, sync_log, FALSE)

(* Initial seeding *)

\* BikeStationCreate(...) validates total_docks > 0
ValidStation(mevo_station) == mevo_station.capacity > 0

BikeStationCreate(mevo_station) ==
    [external_station_id |-> mevo_station.station_id,
     total_docks |-> mevo_station.capacity, is_active |-> TRUE]

\* A lookup that finds no station, whatever the store holds.
StationByExternalIdNeverFound(stations, external_id) == NoStation

\* get_station_by_external_id: result.data[0], rows coming back in id order
StationByExternalId(stations, external_id) ==
    LET found == {s \in stations : s.external_station_id = external_id}
    IN  IF found = {} THEN NoStation
        ELSE CHOOSE s \in found : \A t \in found : s.id <= t.id

\* A _process_station_status that keeps the minute of the timestamp as the
\* minute slot.
ProcessStationStatusUnslotted(stats, status, timestamp, stations, insert_ok) ==
    LET station == StationByExternalId(stations, status.station_id)
    IN  IF station = NoStation
        THEN [raised |-> FALSE, stats |-> stats, created |-> <<>>]
        ELSE IF ~ValidSnapshot(status) \/ ~insert_ok
        THEN [raised |-> TRUE, stats |-> stats, created |-> <<>>]
        ELSE [raised |-> FALSE,
              stats |-> [stats EXCEPT !.stations_processed = @ + 1,
                                      !.snapshots_created = @ + 1],
              created |-> <<[PrepareSnapshot(station.id, status.num_bikes_available,
                                             timestamp)
                                EXCEPT !.minute_slot = timestamp.minute]>>]

\* _process_station_status: one status looked up by its external id and
\* inserted on its own; it returns without a row for a status of no persisted
\* station and raises, with nothing counted, when the snapshot does not
\* validate or the insert fails.
ProcessStationStatus(stats, status, timestamp, stations, insert_ok) ==
    LET station == StationByExternalId(stations, status.station_id)
    IN  IF station = NoStation
        THEN [raised |-> FALSE, stats |-> stats, created |-> <<>>]
        ELSE IF ~ValidSnapshot(status) \/ ~insert_ok
        THEN [raised |-> TRUE, stats |-> stats, created |-> <<>>]
        ELSE [raised |-> FALSE,
              stats |-> [stats EXCEPT !.stations_processed = @ + 1,
                                      !.snapshots_created = @ + 1],
              created |-> <<PrepareSnapshot(station.id, status.num_bikes_available,
                                            timestamp)>>]

\* One _process_station_status per status of the list, each call on its own:
\* a call that raises leaves the stats and the table to the calls after it.
RECURSIVE ProcessStationStatusEach(_, _, _, _, _)
ProcessStationStatusEach(station_statuses, i, timestamp, stations, acc) ==
    IF i > Len(station_statuses) THEN acc
    ELSE LET one == ProcessStationStatus(acc.stats, station_statuses[i], timestamp,
                                         stations, TRUE)
         IN  ProcessStationStatusEach(
                 station_statuses, i + 1, timestamp, stations,
                 [stats |-> one.stats, created |-> acc.created \o one.created,
                  raised |-> acc.raised + (IF one.raised THEN 1 ELSE 0)])

\* The lookup loop leaving at the first station that fails, the stations after
\* it not looked at.
RECURSIVE ClassifyStationsStopsAtFailure(_, _, _, _, _)
ClassifyStationsStopsAtFailure(mevo_stations, i, stations, lookup_fail, acc) ==
    IF i > Len(mevo_stations) THEN acc
    ELSE LET mevo_station == mevo_stations[i]
             existing_station == StationByExternalId(stations, mevo_station.station_id)
         IN  IF i \in lookup_fail \/ ~ValidStation(mevo_station)
             THEN [acc EXCEPT !.stats = [AddError(@, "station") EXCEPT
                                            !.stations_skipped = @ + 1]]
             ELSE ClassifyStationsStopsAtFailure(
                      mevo_stations, i + 1, stations, lookup_fail,
                      IF existing_station # NoStation
                      THEN [acc EXCEPT !.stations_to_update =
                               Append(@, [existing_station |-> existing_station,
                                          station_data |-> BikeStationCreate(mevo_station)])]
                      ELSE [acc EXCEPT !.new_stations =
                               Append(@, BikeStationCreate(mevo_station))])

\* The loop "for mevo_station in mevo_stations" of _process_stations_batch;
\* the lookup of the stations at the positions lookup_fail raises.
RECURSIVE ClassifyStations(_, _, _, _, _)
ClassifyStations(mevo_stations, i, stations, lookup_fail, acc) ==
    IF i > Len(mevo_stations) THEN acc
    ELSE LET mevo_station == mevo_stations[i]
             existing_station == StationByExternalId(stations, mevo_station.station_id)
             next == IF i \in lookup_fail \/ ~ValidStation(mevo_station)
                     THEN [acc EXCEPT !.stats = [AddError(@, "station") EXCEPT
                                                    !.stations_skipped = @ + 1]]
                     ELSE IF existing_station # NoStation
                     THEN [acc EXCEPT !.stations_to_update =
                              Append(@, [existing_station |-> existing_station,
                                         station_data |-> BikeStationCreate(mevo_station)])]
                     ELSE [acc EXCEPT !.new_stations =
                              Append(@, BikeStationCreate(mevo_station))]
         IN  ClassifyStations(mevo_stations, i + 1, stations, lookup_fail, next)

\* create_stations_batch: one insert of all new stations
CreateStationsBatch(st, new_stations) ==
    [table |-> st.table \cup {WithId(new_stations[i], st.next_id + i - 1) :
                                  i \in 1..Len(new_stations)},
     next_id |-> st.next_id + Len(new_stations)]

\* update_station(existing_station.id, update_data)
UpdateStation(table, id, station_data) ==
    {IF r.id = id
     THEN [r EXCEPT !.total_docks = station_data.total_docks,
                    !.is_active = station_data.is_active]
     ELSE r : r \in table}

\* The loop "for existing_station, station_data in stations_to_update"; the
\* updates at the positions update_fail raise.
RECURSIVE UpdateStations(_, _, _, _)
UpdateStations(stations_to_update, i, update_fail, acc) ==
    IF i > Len(stations_to_update) THEN acc
    ELSE LET u == stations_to_update[i]
             next == IF i \in update_fail
                     THEN [acc EXCEPT !.stats = [AddError(@, "update") EXCEPT
                                                    !.stations_skipped = @ + 1]]
                     ELSE [acc EXCEPT
                             !.table = UpdateStation(@, u.existing_station.id, u.station_data),
                             !.stats.stations_updated = @ + 1]
         IN  UpdateStations(stations_to_update, i + 1, update_fail, next)

\* A batch create whose failure counts one station as skipped, however many
\* the batch held.
CreateNewStationsSkipsOne(stats, new_stations, st, create_ok) ==
    IF new_stations = <<>>
    THEN [stats |-> stats, st |-> st]
    ELSE IF create_ok
    THEN [stats |-> [stats EXCEPT !.stations_created = @ + Len(new_stations)],
          st |-> CreateStationsBatch(st, new_stations)]
    ELSE [stats |-> [AddError(stats, "create") EXCEPT !.stations_skipped = @ + 1],
          st |-> st]

\* "if new_stations:" of _process_stations_batch: the batch create, counted
\* as created by the rows it returns, or as skipped with one error when it
\* raises.
CreateNewStations(stats, new_stations, st, create_ok) ==
    IF new_stations = <<>>
    THEN [stats |-> stats, st |-> st]
    ELSE IF create_ok
    THEN [stats |-> [stats EXCEPT !.stations_created = @ + Len(new_stations)],
          st |-> CreateStationsBatch(st, new_stations)]
    ELSE [stats |-> [AddError(stats, "create") EXCEPT
                       !.stations_skipped = @ + Len(new_stations)],
          st |-> st]

\* _process_stations_batch
ProcessStationsBatch(stats, mevo_stations, st, lookup_fail, create_ok, update_fail) ==
    LET c == ClassifyStations(mevo_stations, 1, st.table, lookup_fail,
                              [stats |-> stats, new_stations |-> <<>>,
                               stations_to_update |-> <<>>])
        created == CreateNewStations(c.stats, c.new_stations, st, create_ok)
        updated == UpdateStations(c.stations_to_update, 1, update_fail,
                                  [stats |-> created.stats, table |-> created.st.table])
    IN  [stats |-> updated.stats,
         st |-> [table |-> updated.table, next_id |-> created.st.next_id]]

\* try: create_sync_log(sync_log) / except Exception: logger.error(...)
SeedLogWriteEscapes(log_ok) == FALSE

\* SUCCESS if not errors else (PARTIAL if stations_created > 0 else FAILED)
SeedStatusOf(errors, stations_created) ==
    IF errors = <<>> THEN "success"
    ELSE IF stations_created > 0 THEN "partial" ELSE "failed"

\* seed_initial_stations from the answers of the feed to its return.
SeedInitialStationsRun(st, sysinfo_ok, feed, lookup_fail, create_ok, update_fail, log_ok) ==
    LET stats0 == [stations_fetched |-> 0, stations_created |-> 0, stations_updated |-> 0,
                   stations_skipped |-> 0, errors |-> <<>>, success |-> FALSE]
        stats == IF sysinfo_ok THEN stats0 ELSE AddError(stats0, "sysinfo")
    IN  IF ~feed.ok
        THEN [st |-> st] @@ Outcome(AddError(stats, "api"), 0, NoLog, FALSE)
        ELSE LET b == ProcessStationsBatch(
                          [stats EXCEPT !.stations_fetched = Len(feed.data)],
                          feed.data, st, lookup_fail, create_ok, update_fail)
                 sync_status == SeedStatusOf(b.stats.errors, b.stats.stations_created)
                 sync_log == ApiSyncLogCreate(sync_status,
                                 b.stats.stations_created + b.stats.stations_updated,
                                 0, b.stats.errors)
             IN  IF SeedLogWriteEscapes(log_ok)
                 THEN [st |-> b.st] @@ Outcome(b.stats, 1, sync_log, TRUE)
                 ELSE [st |-> b.st] @@
                      Outcome([b.stats EXCEPT !.success = sync_status \in {"success", "partial"}],
                              1, sync_log, FALSE)

(* Runs of the seeder, each to its return *)

ClockHours == {8}

ClockMinutes == {5, 59}

\* The day the runs of the seeder happen on: a Monday.
ClockDays == {8}

\* The inputs of a run that met none: a seeding run has no start_time and no
\* failed directory read or snapshot insert, a status sync no failed station.
NoInputs == [feed |-> MevoApiError, lookup_failed |-> FALSE, insert_failed |-> FALSE,
             item_failed |-> {}, create_failed |-> FALSE,
             start_time |-> [day |-> 0, hour |-> 0, minute |-> 0]]

StatusFeeds ==
    {MevoApiError,
     Fetched(<<>>),
     Fetched(<<MevoStationStatus("A", 1)>>),
     Fetched(<<MevoStationStatus("A", 0), MevoStationStatus("B", 2)>>),
     Fetched(<<MevoStationStatus("A", -1), MevoStationStatus("B", 1)>>),
     Fetched(<<MevoStationStatus("A", -1)>>),
     Fetched(<<MevoStationStatus("C", 1)>>)}

StationFeeds ==
    {MevoApiError,
     Fetched(<<MevoStation("A", 10)>>),
     Fetched(<<MevoStation("A", 12), MevoStation("B", 0)>>),
     Fetched(<<MevoStation("B", 8), MevoStation("C", 6)>>)}

BikeStation(id, external_station_id, total_docks, is_active) ==
    [id |-> id, external_station_id |-> external_station_id,
     total_docks |-> total_docks, is_active |-> is_active]

\* The station directories a run may start from.
Directories ==
    {<<>>,
     <<BikeStation(1, "A", 10, TRUE)>>,
     <<BikeStation(1, "A", 10, TRUE), BikeStation(2, "B", 8, FALSE)>>}

InitSeeder ==
    /\ today \in ClockDays
    /\ availability_snapshots = <<>>
    /\ reliability_scores = {}
    /\ hourly_availability_averages = {}
    /\ next_score_id = 1
    /\ next_average_id = 1
    /\ \E d \in Directories :
          /\ bike_stations = {d[i] : i \in DOMAIN d}
          /\ next_station_id = Len(d) + 1
    /\ api_sync_logs = <<>>
    /\ last_call = NoCall
    /\ prev_scores = {}
    /\ prev_averages = {}
    /\ last_run = NoRun
    /\ runs = 0
    /\ passes = NoPasses
    /\ client = NewClient
    /\ SchedulerConstructed

\* Bookkeeping: the run that returned, whether its log write raised, and the
\* stats the same run returns when the log write answers (twin).
RunReturned(op, run, log_ok, twin, inputs, created, requests) ==
    /\ api_sync_logs' = IF run.log_attempts > 0 /\ log_ok
                        THEN Append(api_sync_logs, run.log) ELSE api_sync_logs
    /\ last_run' = [op |-> op, stats |-> run.stats, log_attempts |-> run.log_attempts,
                    log |-> run.log, log_failed |-> run.log_attempts > 0 /\ ~log_ok,
                    twin |-> twin.stats, inputs |-> inputs, created |-> created,
                    requests |-> requests]
    /\ runs' = runs + 1

\* One sync_station_status with what it met: the answer of the feed, its
\* start_time, whether get_all_stations raised and whether the batch insert
\* it attempted raised.
SyncAttempt(feed, lookup_ok, insert_ok, log_ok, start_time) ==
    LET run == SyncStationStatusRun(bike_stations, start_time, feed,
                                    lookup_ok, insert_ok, log_ok)
    IN  [run |-> run,
         twin |-> SyncStationStatusRun(bike_stations, start_time, feed,
                                       lookup_ok, insert_ok, TRUE),
         log_ok |-> run.log_attempts = 0 \/ log_ok,
         inputs |-> [feed |-> feed, start_time |-> start_time,
                     lookup_failed |-> feed.ok /\ ~lookup_ok,
                     insert_failed |->
                         /\ ~insert_ok
                         /\ \E i \in DOMAIN run.requests :
                               run.requests[i] = "create_availability_snapshots_batch"]]

\* await seeder.sync_station_status()
SyncStationStatus ==
    /\ runs < MaxRuns
    /\ \E a \in {SyncAttempt(feed, lookup_ok, insert_ok, log_ok,
                             [day |-> today, hour |-> hour, minute |-> minute]) :
                    feed \in StatusFeeds, lookup_ok \in BOOLEAN, insert_ok \in BOOLEAN,
                    log_ok \in BOOLEAN, hour \in ClockHours, minute \in ClockMinutes} :
          /\ availability_snapshots' = availability_snapshots \o a.run.created
          /\ RunReturned("sync", a.run, a.log_ok, a.twin, a.inputs, a.run.created,
                         a.run.requests)
    /\ UNCHANGED <<today, client, aggregateTables, directoryTables, aggVars, passes, schedVars>>

\* One seed_initial_stations with what it met: the answer of the station
\* feed, the external ids of the stations whose lookup, record construction or
\* update raised, and whether the batch insert it attempted raised.
SeedAttempt(sysinfo_ok, feed, lookup_fail, create_ok, update_fail, log_ok) ==
    LET st == [table |-> bike_stations, next_id |-> next_station_id]
        run == SeedInitialStationsRun(st, sysinfo_ok, feed, lookup_fail, create_ok,
                                      update_fail, log_ok)
        c == ClassifyStations(feed.data, 1, bike_stations, lookup_fail,
                              [stats |-> [errors |-> <<>>, stations_skipped |-> 0],
                               new_stations |-> <<>>, stations_to_update |-> <<>>])
    IN  [run |-> run,
         twin |-> SeedInitialStationsRun(st, sysinfo_ok, feed, lookup_fail, create_ok,
                                         update_fail, TRUE),
         log_ok |-> run.log_attempts = 0 \/ log_ok,
         inputs |-> [NoInputs EXCEPT
                       !.feed = feed,
                       !.item_failed =
                           {feed.data[i].station_id :
                              i \in {k \in DOMAIN feed.data :
                                        k \in lookup_fail \/ ~ValidStation(feed.data[k])}}
                           \cup {c.stations_to_update[k].existing_station.external_station_id :
                                    k \in update_fail \cap DOMAIN c.stations_to_update},
                       !.create_failed = ~create_ok /\ c.new_stations # <<>>]]

\* await seeder.seed_initial_stations(), the station feed answering with one
\* of feeds
SeedInitialStationsFrom(feeds) ==
    /\ runs < MaxRuns
    /\ \E a \in UNION {{SeedAttempt(sysinfo_ok, feed, lookup_fail, create_ok,
                                     update_fail, log_ok) :
                            lookup_fail \in SUBSET (1..Len(feed.data)),
                            update_fail \in SUBSET (1..Len(feed.data)),
                            sysinfo_ok \in BOOLEAN, create_ok \in BOOLEAN,
                            log_ok \in BOOLEAN} :
                       feed \in feeds} :
          /\ bike_stations' = a.run.st.table
          /\ next_station_id' = a.run.st.next_id
          /\ RunReturned("seed", a.run, a.log_ok, a.twin, a.inputs, <<>>, <<>>)
    /\ UNCHANGED <<today, client, availability_snapshots, aggregateTables, aggVars, passes, schedVars>>

SeedInitialStations == SeedInitialStationsFrom(StationFeeds)

NextSeeder ==
    \/ SyncStationStatus
    \/ SeedInitialStations

SpecSeeder == InitSeeder /\ [][NextSeeder]_vars

\* Reconciliation runs alone, over directories that may list a station twice.
RepeatingStationFeeds ==
    StationFeeds \cup {Fetched(<<MevoStation("C", 6), MevoStation("C", 6)>>),
                       Fetched(<<MevoStation("A", 10), MevoStation("C", 6), MevoStation("A", 12)>>)}

NextReconcile == SeedInitialStationsFrom(RepeatingStationFeeds)

SpecReconcile == InitSeeder /\ [][NextReconcile]_vars

----------------------------------------------------------------------------
(* The background scheduler (app/services/background_scheduler.py).        *)
(* A coroutine is suspended only where it awaits the feed's HTTP client:   *)
(* at the fetch and at the closing of the client.  What runs between two   *)
(* such points is one step.                                                *)

\* Firings of the interval trigger one behaviour holds at most.
MaxFirings == 2
\* trigger_job calls one behaviour holds at most.
MaxTriggers == 1

\* add_job(..., max_instances=1, ...)
max_instances == 1

\* A start() that registers the reliability calculation as a third job.
RegisteredJobsWithReliability ==
    {"station_status_collection", "reliability_calculation", "data_maintenance"}

\* The jobs start() registers.
RegisteredJobs == {"station_status_collection", "data_maintenance"}

\* The ids trigger_job dispatches on.
TriggerJobIds == {"station_status_collection", "reliability_calculation", "data_maintenance"}

\* An executor that submits whatever the instance count is.
CanSubmitAlways(instances) == TRUE

\* The executor submits a run of the job only below max_instances; otherwise
\* the firing is dropped with a warning.
CanSubmit(instances) == instances < max_instances

Execution(origin) ==
    [origin |-> origin, pc |-> "fetch", success |-> FALSE, requests |-> <<>>,
     result |-> [success |-> FALSE]]

\* A cycle that spawns the averages task before it awaits the sync.
CycleRequestsSpawnFirst(requests, success) ==
    IF success THEN <<"create_task">> \o requests ELSE requests

\* "if result['success']: asyncio.create_task(...)": the requests of a cycle
\* once _collect_station_status has acted on the result of the sync.
CycleRequests(requests, success) ==
    IF success THEN Append(requests, "create_task") ELSE requests

RemoveAt(seq, i) == [j \in 1..(Len(seq) - 1) |-> IF j < i THEN seq[j] ELSE seq[j + 1]]

\* The answers of the feed and of the store a collection cycle may meet.
CollectionFeeds == {MevoApiError, Fetched(<<MevoStationStatus("A", 1)>>)}

InitScheduler ==
    /\ today = 7
    /\ availability_snapshots = [i \in 1..(MinSampleSize - 1) |->
                                    AvailabilitySnapshotCreate(1, 1, 7, 8)]
    /\ reliability_scores = {}
    /\ hourly_availability_averages = {}
    /\ next_score_id = 1
    /\ next_average_id = 1
    /\ bike_stations = {BikeStation(1, "A", 10, TRUE), BikeStation(2, "B", 8, FALSE)}
    /\ next_station_id = 3
    /\ api_sync_logs = <<>>
    /\ last_call = NoCall
    /\ prev_scores = {}
    /\ prev_averages = {}
    /\ last_run = NoRun
    /\ runs = 0
    /\ passes = NoPasses
    /\ client = NewClient
    /\ SchedulerConstructed

\* A start() without its check of is_running: it builds a scheduler at every
\* call.
StartAgain ==
    /\ scheduler' = [exists |-> TRUE, jobs |-> RegisteredJobs, instances |-> 0]
    /\ is_running' = TRUE
    /\ UNCHANGED <<today, client, storeVars, aggVars, seederVars, passes,
                   executions, tasks, fired, started, skipped, triggers,
                   last_cycle, last_pass>>

\* await scheduler_instance.start()
Start ==
    /\ IF is_running
       THEN UNCHANGED <<is_running, scheduler>>
       ELSE /\ scheduler' = [exists |-> TRUE, jobs |-> RegisteredJobs, instances |-> 0]
            /\ is_running' = TRUE
    /\ UNCHANGED <<today, client, storeVars, aggVars, seederVars, passes,
                   executions, tasks, fired, started, skipped, triggers,
                   last_cycle, last_pass>>

\* await scheduler_instance.stop(): shutdown() cancels the runs the executor
\* has pending; runs started by trigger_job and spawned tasks are not its own.
Stop ==
    /\ IF ~is_running \/ ~scheduler.exists
       THEN UNCHANGED <<is_running, scheduler, executions>>
       ELSE /\ executions' = SelectSeq(executions, LAMBDA e : e.origin # "scheduler")
            /\ scheduler' = NoScheduler
            /\ is_running' = FALSE
    /\ UNCHANGED <<today, client, storeVars, aggVars, seederVars, passes,
                   tasks, fired, started, skipped, triggers, last_cycle, last_pass>>

\* The interval trigger of 'station_status_collection' fires.
Fire ==
    /\ scheduler.exists
    /\ fired < MaxFirings
    /\ fired' = fired + 1
    /\ IF CanSubmit(scheduler.instances)
       THEN /\ scheduler' = [scheduler EXCEPT !.instances = @ + 1]
            /\ executions' = Append(executions, Execution("scheduler"))
            /\ started' = started + 1
            /\ UNCHANGED skipped
       ELSE /\ skipped' = skipped + 1
            /\ UNCHANGED <<scheduler, executions, started>>
    /\ UNCHANGED <<today, client, storeVars, aggVars, seederVars, passes,
                   is_running, tasks, triggers, last_cycle, last_pass>>

\* A maintenance job that clears the table of snapshots.
PerformDataMaintenanceClears(snapshots) == <<>>

\* _perform_data_maintenance: the clean-up of old snapshots is a TODO, the
\* job logs and returns; it has no await and runs within its caller's step.
PerformDataMaintenance(snapshots) == snapshots

\* await scheduler_instance.trigger_job(job_id), up to the first suspension
\* of the job function it calls.
TriggerJob(job_id) ==
    /\ triggers < MaxTriggers
    /\ triggers' = triggers + 1
    /\ IF /\ is_running
          /\ scheduler.exists
          /\ job_id \in scheduler.jobs
          /\ job_id = "station_status_collection"
       THEN executions' = Append(executions, Execution("manual"))
       ELSE UNCHANGED executions
    /\ availability_snapshots' =
          IF /\ is_running
             /\ scheduler.exists
             /\ job_id \in scheduler.jobs
             /\ job_id = "data_maintenance"
          THEN PerformDataMaintenance(availability_snapshots)
          ELSE availability_snapshots
    /\ UNCHANGED <<today, client, aggregateTables, directoryTables, api_sync_logs,
                   aggVars, seederVars, passes,
                   is_running, scheduler, tasks, fired, started, skipped,
                   last_cycle, last_pass>>

\* sync_station_status of execution i from the answer of the feed to the
\* closing of the client.
FetchReturns(i) ==
    /\ executions[i].pc = "fetch"
    /\ \E run \in {[logged |-> log_ok] @@
                    SyncStationStatusRun(bike_stations,
                                         [day |-> today, hour |-> hour, minute |-> 0],
                                         feed, lookup_ok, insert_ok, log_ok) :
                    feed \in CollectionFeeds, lookup_ok \in BOOLEAN, insert_ok \in BOOLEAN,
                    log_ok \in BOOLEAN, hour \in ClockHours} :
          /\ availability_snapshots' = availability_snapshots \o run.created
          /\ api_sync_logs' = IF run.log_attempts > 0 /\ run.logged
                              THEN Append(api_sync_logs, run.log) ELSE api_sync_logs
          /\ executions' = [executions EXCEPT ![i].pc = "close",
                                              ![i].success = run.stats.success,
                                              ![i].requests = run.requests,
                                              ![i].result = run.stats]
    /\ UNCHANGED <<today, client, aggregateTables, directoryTables, aggVars, seederVars, passes,
                   is_running, scheduler, tasks, fired, started, skipped, triggers,
                   last_cycle, last_pass>>

\* batch_size = 10
batch_size == 10

\* A gather handed every station that is left, as if the list were not cut
\* into batches.
FirstBatchWhole(stations) == stations

\* stations[start_idx:end_idx] of the first batch, and what is left after it
FirstBatch(stations) == SubSeq(stations, 1, IF Len(stations) < batch_size
                                             THEN Len(stations) ELSE batch_size)

AfterFirstBatch(stations) == SubSeq(stations, Len(FirstBatch(stations)) + 1, Len(stations))

\* A spawned _update_hourly_averages_async that has not run yet.
Task == [pc |-> "pending", batch |-> <<>>, rest |-> <<>>, results |-> <<>>,
         listed |-> 0, completed |-> 0, failures |-> 0, errors |-> 0, batches |-> 0,
         sleeps |-> 0]

\* A cycle that spawns the averages task whatever the sync returned.
SpawnsTaskAlways(result) == TRUE

\* "if result['success']:"
SpawnsTask(result) == result.success

\* The client is closed: sync_station_status returns, _collect_station_status
\* spawns the averages task on success and returns; the executor's callback
\* releases the instance of a run it had submitted.
CloseReturns(i) ==
    /\ executions[i].pc = "close"
    /\ executions' = RemoveAt(executions, i)
    /\ tasks' = IF SpawnsTask(executions[i].result) THEN Append(tasks, Task) ELSE tasks
    /\ last_cycle' = [returned |-> TRUE,
                      requests |-> CycleRequests(executions[i].requests,
                                                 executions[i].success),
                      success |-> executions[i].success,
                      spawned |-> Len(tasks') - Len(tasks),
                      result |-> executions[i].result]
    /\ scheduler' = IF executions[i].origin = "scheduler"
                    THEN [scheduler EXCEPT !.instances = @ - 1]
                    ELSE scheduler
    /\ UNCHANGED <<today, client, storeVars, aggVars, seederVars, passes,
                   is_running, fired, started, skipped, triggers, last_pass>>

\* get_all_stations(active_only=True), rows in id order
ActiveStationIds(stations) ==
    LET active == {s.id : s \in {x \in stations : x.is_active}}
    IN  [i \in 1..Cardinality(active) |->
            CHOOSE id \in active : Cardinality({other \in active : other < id}) = i - 1]

\* A failure of the pass that gets past "except Exception" of
\* _update_hourly_averages_async, as if the body were not wrapped.
PassEscapesOnFailure(failed) == failed

\* The whole body of _update_hourly_averages_async sits in try/except
\* Exception, which only logs.
PassEscapes(failed) == FALSE

\* The pass of task t is over: what it leaves behind.
PassEnded(t, outcome, failed) ==
    [outcome |-> outcome, listed |-> t.listed, completed |-> t.completed,
     failures |-> t.failures, errors |-> t.errors, batches |-> t.batches,
     sleeps |-> t.sleeps, escaped |-> PassEscapes(failed)]

\* _update_hourly_averages_async of task t up to its first gather: the
\* stations are read (or the read raises and the pass ends), the first batch
\* is handed to gather.
TaskReadsStations(t) ==
    /\ tasks[t].pc = "pending"
    /\ \E read_ok \in BOOLEAN :
       \E stations \in {ActiveStationIds(bike_stations)} :
          IF ~read_ok
          THEN /\ tasks' = RemoveAt(tasks, t)
               /\ last_pass' = PassEnded(tasks[t], "failed", TRUE)
          ELSE IF stations = <<>>
          THEN /\ tasks' = RemoveAt(tasks, t)
               /\ last_pass' = PassEnded(tasks[t], "completed", FALSE)
          ELSE /\ tasks' = [tasks EXCEPT ![t] = [Task EXCEPT
                                !.pc = "gather",
                                !.batch = FirstBatch(stations),
                                !.rest = AfterFirstBatch(stations),
                                !.listed = Len(stations)]]
               /\ UNCHANGED last_pass
    /\ UNCHANGED <<today, client, storeVars, aggVars, seederVars, passes, is_running, scheduler,
                   executions, fired, started, skipped, triggers, last_cycle>>

\* asyncio.gather without return_exceptions: the first exception is raised
\* to the awaiting pass.
GatherRaises(raises) == IF raises THEN "raise" ELSE "result"

\* asyncio.gather(*batch_tasks, return_exceptions=True): an exception of a
\* station's coroutine is delivered as its result.
GatherDelivers(raises) == IF raises THEN "exception" ELSE "result"

\* "for i, result in enumerate(batch_results)": one error per exception
RECURSIVE CountExceptions(_)
CountExceptions(results) ==
    IF results = <<>> THEN 0
    ELSE (IF Head(results) = "exception" THEN 1 ELSE 0) + CountExceptions(Tail(results))

\* _update_station_averages(repo, station) of the next station of the batch
\* task t gathers; after the last one the results are gone through and the
\* pass sleeps before its next batch, or ends.
UpdateStationAverages(t) ==
    /\ tasks[t].pc = "gather"
    /\ \E o \in HourlyAveragesOutcomes(availability_snapshots,
                                       [table |-> hourly_availability_averages,
                                        next_id |-> next_average_id],
                                       Head(tasks[t].batch)) :
       \E ran \in {[tasks[t] EXCEPT
                      !.batch = Tail(@),
                      !.results = Append(@, GatherDelivers(o.raises)),
                      !.completed = @ + 1,
                      !.failures = @ + (IF o.raises THEN 1 ELSE 0)]} :
          /\ hourly_availability_averages' = o.st.table
          /\ next_average_id' = o.st.next_id
          /\ IF "raise" \in {ran.results[k] : k \in DOMAIN ran.results}
             THEN /\ tasks' = RemoveAt(tasks, t)
                  /\ last_pass' = PassEnded(ran, "failed", TRUE)
             ELSE IF ran.batch # <<>>
             THEN /\ tasks' = [tasks EXCEPT ![t] = ran]
                  /\ UNCHANGED last_pass
             ELSE \E gone \in {[ran EXCEPT !.errors = @ + CountExceptions(ran.results),
                                           !.results = <<>>,
                                           !.batches = @ + 1]} :
                     IF gone.rest # <<>>
                     THEN /\ tasks' = [tasks EXCEPT ![t] = [gone EXCEPT !.pc = "sleep",
                                                                       !.sleeps = @ + 1]]
                          /\ UNCHANGED last_pass
                     ELSE /\ tasks' = RemoveAt(tasks, t)
                          /\ last_pass' = PassEnded(gone, "completed", FALSE)
    /\ UNCHANGED <<today, client, availability_snapshots, reliability_scores, next_score_id,
                   directoryTables, api_sync_logs, aggVars, seederVars, passes,
                   is_running, scheduler, executions, fired, started, skipped, triggers,
                   last_cycle>>

\* "await asyncio.sleep(1)" of task t is over: its next batch is handed to
\* gather.
TaskWakes(t) ==
    /\ tasks[t].pc = "sleep"
    /\ tasks' = [tasks EXCEPT ![t].pc = "gather",
                              ![t].batch = FirstBatch(tasks[t].rest),
                              ![t].rest = AfterFirstBatch(tasks[t].rest)]
    /\ UNCHANGED <<today, client, storeVars, aggVars, seederVars, passes, is_running, scheduler,
                   executions, fired, started, skipped, triggers, last_cycle, last_pass>>

\* The directory of InitScheduler fits one batch, so no pass sleeps here;
\* passes of several batches are those of SpecRecompute.
NextScheduler ==
    \/ Start
    \/ Stop
    \/ Fire
    \/ \E job_id \in TriggerJobIds : TriggerJob(job_id)
    \/ \E i \in DOMAIN executions : FetchReturns(i)
    \/ \E i \in DOMAIN executions : CloseReturns(i)
    \/ \E t \in DOMAIN tasks : TaskReadsStations(t)
    \/ \E t \in DOMAIN tasks : UpdateStationAverages(t)

SpecScheduler == InitScheduler /\ [][NextScheduler]_vars

----------------------------------------------------------------------------
(* trigger_job as its caller sees it: each call run to its return or to    *)
(* the exception it raises, the job function it awaits included.           *)

\* trigger_job calls one behaviour of this specification holds at most.
MaxTriggerCalls == 3

\* No trigger_job has been called yet.
NoTrigger == [job_id |-> "none", running |-> FALSE, raised |-> "none", executed |-> "none",
              value |-> [success |-> FALSE], created |-> <<>>, log_attempts |-> 0,
              log |-> NoLog, spawns |-> FALSE]

\* "return {'success': True, 'job_id': job_id, ..., 'result': result}"
TriggerJobReturn(job_id, result) ==
    [success |-> TRUE, job_id |-> job_id, result |-> result]

\* "except Exception as e: return {'success': False, ..., 'error': str(e)}"
TriggerJobExcept(job_id, error) ==
    [success |-> FALSE, job_id |-> job_id, error |-> error]

\* trigger_job(job_id) on a scheduler object in the state (running, sched);
\* run is the sync_station_status its _collect_station_status awaits.  The
\* object has no method _calculate_reliability_scores: the branch of
\* 'reliability_calculation' raises AttributeError into the except clause.
TriggerJobRun(running, sched, job_id, run) ==
    LET called == [NoTrigger EXCEPT !.job_id = job_id, !.running = running]
    IN  IF ~running \/ ~sched.exists
        THEN [called EXCEPT !.raised = "Scheduler is not running"]
        ELSE IF job_id \notin sched.jobs
        THEN [called EXCEPT !.raised = "Job not found"]
        ELSE IF job_id = "station_status_collection"
        THEN [called EXCEPT !.executed = "_collect_station_status",
                            !.value = TriggerJobReturn(job_id, run.stats),
                            !.created = run.created,
                            !.log_attempts = IF run.logged THEN run.log_attempts ELSE 0,
                            !.log = IF run.logged THEN run.log ELSE NoLog,
                            !.spawns = SpawnsTask(run.stats)]
        ELSE IF job_id = "reliability_calculation"
        THEN [called EXCEPT !.executed = "reliability_calculation",
                            !.value = TriggerJobExcept(job_id, "AttributeError")]
        ELSE IF job_id = "data_maintenance"
        THEN [called EXCEPT !.executed = "_perform_data_maintenance",
                            !.value = TriggerJobReturn(job_id, [success |-> TRUE])]
        ELSE [called EXCEPT !.value = TriggerJobExcept(job_id, "Unknown job ID")]

\* await scheduler_instance.trigger_job(job_id), to its return
TriggerJobCall(job_id) ==
    /\ triggers < MaxTriggerCalls
    /\ triggers' = triggers + 1
    /\ \E t \in {TriggerJobRun(is_running, scheduler, job_id,
                               [logged |-> log_ok] @@
                               SyncStationStatusRun(bike_stations,
                                                    [day |-> today, hour |-> hour, minute |-> 0],
                                                    feed, lookup_ok, insert_ok, log_ok)) :
                    feed \in CollectionFeeds, lookup_ok \in BOOLEAN, insert_ok \in BOOLEAN,
                    log_ok \in BOOLEAN, hour \in ClockHours} :
          /\ availability_snapshots' =
                IF t.executed = "_perform_data_maintenance"
                THEN PerformDataMaintenance(availability_snapshots)
                ELSE availability_snapshots \o t.created
          /\ api_sync_logs' = IF t.log_attempts > 0
                              THEN Append(api_sync_logs, t.log) ELSE api_sync_logs
          /\ tasks' = IF t.spawns THEN Append(tasks, Task) ELSE tasks
          /\ last_cycle' = [trigger |-> t] @@ NoCycle
    /\ UNCHANGED <<today, client, aggregateTables, directoryTables, aggVars, seederVars,
                   passes, is_running, scheduler, executions, fired, started, skipped,
                   last_pass>>

NextTrigger ==
    \/ Start
    \/ Stop
    \/ \E job_id \in TriggerJobIds : TriggerJobCall(job_id)

SpecTrigger == InitScheduler /\ [][NextTrigger]_vars

----------------------------------------------------------------------------
(* One averages pass over a directory of more stations than a batch holds *)

\* Active stations the directory holds at most.
MaxStations == 12

\* The pass has been spawned over a store that holds the given snapshots;
\* station 2 of the directory is not active.
InitRecomputeOver(snapshots) ==
    /\ today = 7
    /\ availability_snapshots = snapshots
    /\ reliability_scores = {}
    /\ hourly_availability_averages = {}
    /\ next_score_id = 1
    /\ next_average_id = 1
    /\ \E n \in 1..MaxStations :
          /\ bike_stations = {BikeStation(id, <<"station", id>>, 10, id # 2) :
                                  id \in 1..(n + 1)}
          /\ next_station_id = n + 2
    /\ api_sync_logs = <<>>
    /\ last_call = NoCall
    /\ prev_scores = {}
    /\ prev_averages = {}
    /\ last_run = NoRun
    /\ runs = 0
    /\ passes = NoPasses
    /\ client = NewClient
    /\ is_running = FALSE
    /\ scheduler = NoScheduler
    /\ executions = <<>>
    /\ last_cycle = NoCycle
    /\ last_pass = NoPass
    /\ tasks = <<Task>>
    /\ fired = 0
    /\ started = 0
    /\ skipped = 0
    /\ triggers = 0

\* Station 1 has the snapshots of one key.
InitRecompute ==
    InitRecomputeOver([i \in 1..MinSampleSize |-> AvailabilitySnapshotCreate(1, 1, 7, 8)])

\* No snapshot has been collected yet.
InitRecomputeEmpty == InitRecomputeOver(<<>>)

NextRecompute ==
    \/ \E t \in DOMAIN tasks : TaskReadsStations(t)
    \/ \E t \in DOMAIN tasks : UpdateStationAverages(t)
    \/ \E t \in DOMAIN tasks : TaskWakes(t)

SpecRecompute == InitRecompute /\ [][NextRecompute]_vars

\* Every store call and every sleep the pass awaits returns or fails: the
\* pass is resumed whenever it can take a step.
SpecRecomputeFair == InitRecomputeEmpty /\ [][NextRecompute]_vars /\ WF_vars(NextRecompute)

----------------------------------------------------------------------------
(* The feed client: one MevoApiClient, its session and its three fetch     *)
(* operations, each run to its return.  An exception is the name of its    *)
(* class; every class named here is a subclass of Exception.               *)

\* Fetch calls made on the client at most.
MaxCalls == 2

Raise(exception, requests) == [raised |-> exception, requests |-> requests, body |-> NoBody]

\* The try block of _make_request: await self._session.get(url), a closed
\* httpx client refusing to send; response.raise_for_status();
\* response.json(); the check of the key 'data'.
Attempt(session, response) ==
    IF session = "closed" THEN Raise("RuntimeError", 0)
    ELSE IF ~response.network_ok THEN Raise("RequestError", 1)
    ELSE IF response.status_code \notin 200..299 THEN Raise("HTTPStatusError", 1)
    ELSE IF ~response.body.json_ok THEN Raise("JSONDecodeError", 1)
    ELSE IF ~response.body.has_data THEN Raise("MevoApiError", 1)
    ELSE [raised |-> "none", requests |-> 1, body |-> response.body]

\* The except clauses of _make_request: HTTPStatusError, RequestError and
\* every other Exception are raised again as MevoApiError.
MakeRequestExcept(exception) ==
    CASE exception = "HTTPStatusError" -> "MevoApiError"
      [] exception = "RequestError" -> "MevoApiError"
      [] OTHER -> "MevoApiError"

\* A _make_request that sends the GET a second time when the first met a
\* network error.
MakeRequestRetrying(session, response) ==
    IF session = "none" THEN Raise("MevoApiError", 0)
    ELSE LET attempt == Attempt(session, response)
         IN  IF attempt.raised = "none" THEN attempt
             ELSE IF attempt.raised = "RequestError"
             THEN Raise(MakeRequestExcept(attempt.raised), attempt.requests + 1)
             ELSE [attempt EXCEPT !.raised = MakeRequestExcept(@)]

\* _make_request
MakeRequest(session, response) ==
    IF session = "none" THEN Raise("MevoApiError", 0)
    ELSE LET attempt == Attempt(session, response)
         IN  IF attempt.raised = "none" THEN attempt
             ELSE [attempt EXCEPT !.raised = MakeRequestExcept(@)]

\* An except clause that lets the exception through as it is.
FetchExceptReraises(exception) == exception

\* except Exception as e: raise MevoApiError(...) of the three fetch operations
FetchExcept(exception) == "MevoApiError"

\* What a fetch operation returns or raises, with the GETs it issued.
FetchReturn(data, requests) == [raised |-> "none", data |-> data, requests |-> requests]
FetchRaise(exception, requests) ==
    [raised |-> FetchExcept(exception), data |-> <<>>, requests |-> requests]

\* get_system_information
GetSystemInformationRun(session, response) ==
    LET r == MakeRequest(session, response)
    IN  IF r.raised # "none" THEN FetchRaise(r.raised, r.requests)
        ELSE IF ~r.body.system_ok THEN FetchRaise("ValidationError", r.requests)
        ELSE FetchReturn(<<"MevoSystemInfo">>, r.requests)

\* The keys a record needs to parse: MevoStation(**station_data),
\* MevoStationStatus(**status_data).
RequiredKeys(operation) ==
    IF operation = "get_station_information" THEN {"station_id", "capacity"}
    ELSE {"station_id", "num_bikes_available"}

\* Model(**record): TypeError for what is no mapping, ValidationError for a
\* mapping that lacks a field.
ParseRaises(operation, record) ==
    IF ~record.mapping THEN "TypeError"
    ELSE IF ~(RequiredKeys(operation) \subseteq record.keys) THEN "ValidationError"
    ELSE "none"

\* The fields of a status record beyond num_bikes_available.
StatusDetail(num_docks_available, is_installed, is_renting, is_returning, last_reported) ==
    [num_docks_available |-> num_docks_available, is_installed |-> is_installed,
     is_renting |-> is_renting, is_returning |-> is_returning,
     last_reported |-> last_reported]

StatusDetailOf(record) == [f \in DOMAIN StatusDetail(0, FALSE, FALSE, FALSE, 0) |-> record[f]]

\* A status record is followed with its further fields where the document
\* lists them.
Parsed(operation, record) ==
    IF operation = "get_station_information"
    THEN MevoStation(record.station_id, record.capacity)
    ELSE IF "last_reported" \in DOMAIN record
    THEN StatusDetailOf(record) @@ MevoStationStatus(record.station_id, record.num_bikes_available)
    ELSE MevoStationStatus(record.station_id, record.num_bikes_available)

\* logger.warning(f"Failed to parse station {station_data.get('station_id',
\* 'unknown')}: ..."): what is no mapping has no get.
WarningRaises(record) == IF record.mapping THEN "none" ELSE "AttributeError"

\* The loop "for station_data in stations_data" with its try/except around
\* each record.
RECURSIVE ParseRecords(_, _, _, _)
ParseRecords(operation, records, i, parsed) ==
    IF i > Len(records) THEN [raised |-> "none", data |-> parsed]
    ELSE IF ParseRaises(operation, records[i]) = "none"
    THEN ParseRecords(operation, records, i + 1,
                      Append(parsed, Parsed(operation, records[i])))
    ELSE IF WarningRaises(records[i]) # "none"
    THEN [raised |-> WarningRaises(records[i]), data |-> <<>>]
    ELSE ParseRecords(operation, records, i + 1, parsed)

\* get_station_information and get_station_status
GetStationsRun(operation, session, response) ==
    LET r == MakeRequest(session, response)
    IN  IF r.raised # "none" THEN FetchRaise(r.raised, r.requests)
        ELSE IF ~r.body.has_stations THEN FetchRaise("KeyError", r.requests)
        ELSE LET p == ParseRecords(operation, r.body.stations, 1, <<>>)
             IN  IF p.raised # "none" THEN FetchRaise(p.raised, r.requests)
                 ELSE FetchReturn(p.data, r.requests)

\* The records a feed document lists.
RawRecords ==
    {JsonObject({"station_id", "capacity", "num_bikes_available"}, "A", 10, 3),
     JsonObject({"station_id", "capacity", "num_bikes_available"}, "C", 6, 0),
     JsonObject({"station_id"}, "B", 0, 0),
     JsonNull}

RawLists == {<<>>} \cup {<<a>> : a \in RawRecords}
                   \cup {<<a, b>> : a \in RawRecords, b \in RawRecords}

\* The answers of the feed server.
Responses ==
    {NoResponse, Response(TRUE, 404, NoBody), Response(TRUE, 500, NoBody),
     Response(TRUE, 200, NoBody),
     Response(TRUE, 200, Body(TRUE, FALSE, FALSE, <<>>, FALSE)),
     Response(TRUE, 200, Body(TRUE, TRUE, FALSE, <<>>, FALSE))}
    \cup {Response(TRUE, 200, Body(TRUE, TRUE, TRUE, stations, TRUE)) :
            stations \in RawLists}

InitClient == InitScheduler

\* async with MevoApiClient() as client: __aenter__
AEnter ==
    /\ client' = [client EXCEPT !.session = "open"]
    /\ UNCHANGED <<today, storeVars, aggVars, seederVars, passes, schedVars>>

\* __aexit__: if self._session: await self._session.aclose()
AExit ==
    /\ client' = [client EXCEPT !.session = IF @ = "none" THEN "none" ELSE "closed"]
    /\ UNCHANGED <<today, storeVars, aggVars, seederVars, passes, schedVars>>

\* Bookkeeping: the fetch that returned, with the session and the answer it met.
FetchReturned(operation, response, run) ==
    /\ client.calls < MaxCalls
    /\ client' = [client EXCEPT
                    !.requests = @ + run.requests,
                    !.calls = @ + 1,
                    !.last = [operation |-> operation, session |-> client.session,
                              response |-> response, raised |-> run.raised,
                              data |-> run.data, requests |-> run.requests]]
    /\ UNCHANGED <<today, storeVars, aggVars, seederVars, passes, schedVars>>

\* await client.get_system_information()
GetSystemInformation ==
    \E response \in Responses :
        FetchReturned("get_system_information", response,
                      GetSystemInformationRun(client.session, response))

\* await client.get_station_information()
GetStationInformation ==
    \E response \in Responses :
        FetchReturned("get_station_information", response,
                      GetStationsRun("get_station_information", client.session, response))

\* await client.get_station_status()
GetStationStatus ==
    \E response \in Responses :
        FetchReturned("get_station_status", response,
                      GetStationsRun("get_station_status", client.session, response))

NextClient ==
    \/ AEnter
    \/ AExit
    \/ GetSystemInformation
    \/ GetStationInformation
    \/ GetStationStatus

SpecClient == InitClient /\ [][NextClient]_vars

----------------------------------------------------------------------------
(* get_combined_station_data: the two station fetches of one client, and   *)
(* the list that joins their records.                                      *)

\* The largest instant datetime.fromtimestamp(..., tz=timezone.utc) turns
\* into a datetime (the last second of the year 9999), on the scale of the
\* model.
MaxInstant == 9

\* datetime.fromtimestamp(last_reported, tz=timezone.utc).isoformat()
FromTimestamp(last_reported) ==
    IF last_reported \in 0..MaxInstant
    THEN [raised |-> "none", isoformat |-> <<"utc", last_reported>>]
    ELSE [raised |-> "ValueError", isoformat |-> <<>>]

\* A lookup that finds no status.
InStatusMapNever(statuses, station_id) == FALSE

\* station.station_id in status_map
InStatusMap(statuses, station_id) ==
    \E k \in DOMAIN statuses : statuses[k].station_id = station_id

\* status_map[station.station_id]: of the statuses with one station_id the
\* dict comprehension keeps the last.
StatusMapGet(statuses, station_id) ==
    statuses[CHOOSE k \in DOMAIN statuses :
                /\ statuses[k].station_id = station_id
                /\ \A j \in DOMAIN statuses : j > k => statuses[j].station_id # station_id]

\* The default values of a station without status.
DefaultStatus ==
    [num_bikes_available |-> 0, num_docks_available |-> 0, is_installed |-> FALSE,
     is_renting |-> FALSE, is_returning |-> FALSE, last_reported |-> 0,
     last_reported_datetime |-> <<>>]

\* station_dict.update({...}) with the fields of a status
StatusUpdate(status) ==
    [num_bikes_available |-> status.num_bikes_available,
     num_docks_available |-> status.num_docks_available,
     is_installed |-> status.is_installed, is_renting |-> status.is_renting,
     is_returning |-> status.is_returning, last_reported |-> status.last_reported,
     last_reported_datetime |-> FromTimestamp(status.last_reported).isoformat]

\* The loop "for station in stations" of get_combined_station_data.
RECURSIVE Combine(_, _, _, _)
Combine(stations, statuses, i, combined_data) ==
    IF i > Len(stations) THEN [raised |-> "none", data |-> combined_data]
    ELSE LET station == stations[i]
         IN  IF InStatusMap(statuses, station.station_id)
             THEN LET status == StatusMapGet(statuses, station.station_id)
                  IN  IF FromTimestamp(status.last_reported).raised # "none"
                      THEN [raised |-> FromTimestamp(status.last_reported).raised,
                            data |-> <<>>]
                      ELSE Combine(stations, statuses, i + 1,
                                   Append(combined_data, StatusUpdate(status) @@ station))
             ELSE Combine(stations, statuses, i + 1,
                          Append(combined_data, DefaultStatus @@ station))

\* get_combined_station_data: both fetches run as tasks of their own, so each
\* issues its request whatever becomes of the other; asyncio.gather raises
\* what a failed fetch raised, and every exception leaves as MevoApiError.
GetCombinedStationDataRun(session, info, status) ==
    LET stations == GetStationsRun("get_station_information", session, info)
        statuses == GetStationsRun("get_station_status", session, status)
        requests == stations.requests + statuses.requests
        joined == Combine(stations.data, statuses.data, 1, <<>>)
        fetched == [called |-> TRUE, session |-> session, raised |-> "none",
                    stations |-> stations.data, statuses |-> statuses.data,
                    data |-> <<>>, requests |-> requests]
    IN  IF stations.raised # "none" \/ statuses.raised # "none"
        THEN [fetched EXCEPT !.raised = FetchExcept("MevoApiError"),
                             !.stations = <<>>, !.statuses = <<>>]
        ELSE IF joined.raised # "none"
        THEN [fetched EXCEPT !.raised = FetchExcept(joined.raised)]
        ELSE [fetched EXCEPT !.data = joined.data]

\* The documents of the two station feeds: a directory of stations A and C,
\* and statuses of A, of C, of a station D the directory does not list, and
\* a status whose last_reported no datetime holds.
DirectoryRecords ==
    {JsonObject({"station_id", "capacity"}, "A", 10, 0),
     JsonObject({"station_id", "capacity"}, "C", 6, 0),
     JsonNull}

StatusRecords ==
    {StatusDetail(7, TRUE, TRUE, TRUE, 5) @@ JsonObject({"station_id", "num_bikes_available"}, "A", 0, 3),
     StatusDetail(9, TRUE, FALSE, TRUE, 2) @@ JsonObject({"station_id", "num_bikes_available"}, "A", 0, 1),
     StatusDetail(0, TRUE, TRUE, FALSE, MaxInstant + 1) @@ JsonObject({"station_id", "num_bikes_available"}, "C", 0, 6),
     StatusDetail(4, FALSE, TRUE, TRUE, 1) @@ JsonObject({"station_id", "num_bikes_available"}, "D", 0, 2),
     StatusDetail(0, FALSE, FALSE, FALSE, 0) @@ JsonObject({"station_id"}, "C", 0, 0)}

ListsOf(records) == {<<>>} \cup {<<a>> : a \in records}
                           \cup {<<a, b>> : a \in records, b \in records}

FeedResponses(records) ==
    {NoResponse, Response(TRUE, 500, NoBody)}
    \cup {Response(TRUE, 200, Body(TRUE, TRUE, TRUE, stations, TRUE)) :
            stations \in ListsOf(records)}

\* await client.get_combined_station_data()
GetCombinedStationData ==
    /\ client.calls < MaxCalls
    /\ \E info \in FeedResponses(DirectoryRecords), status \in FeedResponses(StatusRecords) :
          \E run \in {GetCombinedStationDataRun(client.session, info, status)} :
              client' = [client EXCEPT !.requests = @ + run.requests,
                                       !.calls = @ + 1,
                                       !.combined = run]
    /\ UNCHANGED <<today, storeVars, aggVars, seederVars, passes, schedVars>>

NextCombined ==
    \/ AEnter
    \/ AExit
    \/ GetCombinedStationData

SpecCombined == InitClient /\ [][NextCombined]_vars

----------------------------------------------------------------------------
(* calculate_reliability_scores: the reliability recomputation over the    *)
(* stations it selects, run to its return.                                 *)

\* The bounds the request layer checks days_back against.
MinDaysBack == 1
MaxDaysBack == 365

\* The days_back values calculate_reliability_scores is called with.
AnyDaysBack == {0, 1, 366}

\* The station_id arguments: 0 stands for None, 3 is the id of no station.
StationIdArgs == {0, 1, 3}

\* "if station_id: [get_station_by_id(station_id)] without None
\*  else: get_all_stations(active_only=True)"
StationsToProcess(stations, station_id) ==
    IF station_id # 0
    THEN IF \E s \in stations : s.id = station_id THEN <<station_id>> ELSE <<>>
    ELSE ActiveStationIds(stations)

\* A loop over the stations that lets the exception of a station out, the
\* stations after it not reached.
RECURSIVE CalculateStationsFailFast(_, _, _, _, _, _, _)
CalculateStationsFailFast(stations, i, snapshots, start_date, end_date, fail, acc) ==
    IF i > Len(stations) THEN acc
    ELSE LET scores == StationScores(snapshots, stations[i], start_date, end_date)
         IN  IF fail[stations[i]] < 0
             THEN CalculateStationsFailFast(
                      stations, i + 1, snapshots, start_date, end_date, fail,
                      [acc EXCEPT !.st = UpsertFirst(@, scores, Len(scores)),
                                  !.scores_calculated = @ + Len(scores)])
             ELSE [acc EXCEPT !.st = UpsertFirst(@, scores, fail[stations[i]]),
                              !.errors = Append(@, stations[i])]

\* The loop "for station in stations" with its try/except around
\* _calculate_station_reliability.  fail[s] < 0: the calculation of station s
\* returns; fail[s] = n: n of its upserts answer and the next request raises.
RECURSIVE CalculateStations(_, _, _, _, _, _, _)
CalculateStations(stations, i, snapshots, start_date, end_date, fail, acc) ==
    IF i > Len(stations) THEN acc
    ELSE LET scores == StationScores(snapshots, stations[i], start_date, end_date)
             next == IF fail[stations[i]] < 0
                     THEN [acc EXCEPT !.st = UpsertFirst(@, scores, Len(scores)),
                                      !.scores_calculated = @ + Len(scores)]
                     ELSE [acc EXCEPT !.st = UpsertFirst(@, scores, fail[stations[i]]),
                                      !.errors = Append(@, stations[i])]
         IN  CalculateStations(stations, i + 1, snapshots, start_date, end_date, fail, next)

\* The ways the calculations of the stations can end: each returns (-1) or
\* raises before its first upsert has answered (0).  A raise after an upsert
\* needs a station with two score rows, ten snapshots or more.
StationFailures == [Stations -> {-1, 0}]

\* calculate_reliability_scores(station_id, days_back) from its first line to
\* its return; lookup_ok: the read of the stations answers, otherwise the
\* call raises "Reliability calculation error".
CalculateReliabilityScoresRun(st, snapshots, stations, now, station_id, days_back, lookup_ok, fail) ==
    LET end_date == now
        start_date == end_date - days_back
        selected == StationsToProcess(stations, station_id)
        done == CalculateStations(selected, 1, snapshots, start_date, end_date, fail,
                                  [st |-> st, scores_calculated |-> 0, errors |-> <<>>])
    IN  IF ~lookup_ok
        THEN [raised |-> TRUE, st |-> st, stations |-> <<>>, failed |-> {},
              result |-> [stations_processed |-> 0, scores_calculated |-> 0,
                          errors |-> <<>>, success |-> FALSE]]
        ELSE [raised |-> FALSE, st |-> done.st, stations |-> selected,
              failed |-> {selected[i] : i \in {k \in DOMAIN selected : fail[selected[k]] >= 0}},
              result |-> [stations_processed |-> Len(selected),
                          scores_calculated |-> done.scores_calculated,
                          errors |-> done.errors,
                          success |-> Len(done.errors) = 0]]

\* The stores the calls start from: of every kind of snapshot none, one or
\* enough for a score row.
InitScores ==
    /\ today = 7
    /\ \E cnt \in [1..Len(SnapshotKinds) -> {0, 1, MinSampleSize}] :
          /\ SumTo(cnt, Len(SnapshotKinds)) <= MaxSnapshots
          /\ availability_snapshots = Expand(cnt, 1)
    /\ reliability_scores = {}
    /\ hourly_availability_averages = {}
    /\ next_score_id = 1
    /\ next_average_id = 1
    /\ last_call = NoCall
    /\ prev_scores = {}
    /\ prev_averages = {}
    /\ bike_stations = {[id |-> s, external_station_id |-> <<"station", s>>,
                         total_docks |-> 10, is_active |-> TRUE] : s \in Stations}
    /\ next_station_id = Cardinality(Stations) + 1
    /\ api_sync_logs = <<>>
    /\ last_run = NoRun
    /\ runs = 0
    /\ passes = NoPasses
    /\ client = NewClient
    /\ SchedulerConstructed

\* await repo.calculate_reliability_scores(station_id, days_back)
CalculateReliabilityScores ==
    /\ \E station_id \in StationIdArgs, days_back \in AnyDaysBack :
       \E run \in {CalculateReliabilityScoresRun(
                       [table |-> reliability_scores, next_id |-> next_score_id],
                       availability_snapshots, bike_stations, today, station_id,
                       days_back, lookup_ok, fail) :
                     lookup_ok \in BOOLEAN, fail \in StationFailures} :
          /\ reliability_scores' = StampCalculatedAt(run.st.table, today)
          /\ next_score_id' = run.st.next_id
          /\ last_call' = [days_back |-> days_back, stations |-> run.stations,
                           failed |-> run.failed, result |-> run.result]
                          @@ [NoCall EXCEPT !.kind = "scores", !.station_id = station_id,
                                            !.start_date = today - days_back,
                                            !.end_date = today, !.ok = ~run.raised,
                                            !.raised = IF run.raised THEN "scores"
                                                       ELSE "none"]
          /\ prev_scores' = reliability_scores
          /\ prev_averages' = hourly_availability_averages
    /\ UNCHANGED <<today, client, availability_snapshots, hourly_availability_averages,
                   next_average_id, directoryTables, api_sync_logs, seederVars, passes,
                   schedVars>>

NextScores == CalculateReliabilityScores

SpecScores == InitScores /\ [][NextScores]_vars

----------------------------------------------------------------------------
(* Properties of the aggregation engine (under SpecAgg) *)

DayTypes == {"weekday", "weekend"}
Hours == 0..23

\* The snapshots of one station and key with a timestamp on the days start..end,
\* counted directly on the table.
SnapshotsOf(station_id, hour, day_type, start_date, end_date) ==
    {i \in DOMAIN availability_snapshots :
        /\ availability_snapshots[i].station_id = station_id
        /\ availability_snapshots[i].hour = hour
        /\ (day_type = "weekday") = (availability_snapshots[i].day_of_week \in 1..5)
        /\ availability_snapshots[i].timestamp.day \in start_date..end_date}

WithBikes(idx) == {i \in idx : availability_snapshots[i].available_bikes > 0}

ScoreRows(station_id, hour, day_type) ==
    {r \in reliability_scores :
        r.station_id = station_id /\ r.hour = hour /\ r.day_type = day_type}

AverageRows(station_id, hour, day_type) ==
    {r \in hourly_availability_averages :
        r.station_id = station_id /\ r.hour = hour /\ r.day_type = day_type}

\* C3: when an aggregate recomputation (reliability with the same window, or
\* hourly averages) is run a second time for a station right after a first run,
\* both returning normally and the snapshots unchanged, the persisted rows are
\* exactly those the first run left: same ids, same values, no second row for
\* any (station, hour, day_type).
C3_RecomputeIdempotent ==
    last_call.repeat =>
        /\ reliability_scores = prev_scores
        /\ hourly_availability_averages = prev_averages
        /\ \A s \in Stations, h \in Hours, d \in DayTypes :
              /\ Cardinality(ScoreRows(s, h, d)) <= 1
              /\ Cardinality(AverageRows(s, h, d)) <= 1

\* A reliability recomputation was repeated for a station that has a score row.
C3_Witness ==
    /\ last_call.repeat
    /\ last_call.kind = "reliability"
    /\ \E r \in reliability_scores :
          /\ r.station_id = last_call.station_id
          /\ r.data_period_start = last_call.start_date
    /\ hourly_availability_averages # {}

\* C5 (as claimed): after a reliability recomputation of a station, no
\* reliability_scores row exists for a key of that station that has fewer than
\* 5 snapshots inside the window of that (most recent) recomputation.
C5_NoRowBelowThreshold ==
    last_call.kind = "reliability" =>
        \A h \in Hours, d \in DayTypes :
            Cardinality(SnapshotsOf(last_call.station_id, h, d,
                                    last_call.start_date, last_call.end_date)) < MinSampleSize
            => ScoreRows(last_call.station_id, h, d) = {}

\* Within one hundredth's half of 100 * k / n: |pct * n - 10000 * k| * 2 <= n,
\* pct in hundredths of a percent.
AccurateToTwoPlaces(pct, k, n) ==
    /\ 2 * (pct * n - 10000 * k) <= n
    /\ 2 * (10000 * k - pct * n) <= n

\* C6 (amended): when _calculate_station_reliability returns normally, every
\* key of the station with at least 5 snapshots in the window has a persisted
\* row whose reliability_percentage is 100 * (snapshots with bikes) /
\* (snapshots) rounded to two decimal places and whose sample_size is the
\* number of those snapshots: no snapshot of another station, key or day counts.
C6_ScoreMatchesWindow ==
    last_call.kind = "reliability" =>
        \A h \in Hours, d \in DayTypes :
            LET idx == SnapshotsOf(last_call.station_id, h, d,
                                   last_call.start_date, last_call.end_date)
                n == Cardinality(idx)
                k == Cardinality(WithBikes(idx))
            IN  n >= MinSampleSize =>
                    /\ ScoreRows(last_call.station_id, h, d) # {}
                    /\ \A r \in ScoreRows(last_call.station_id, h, d) :
                          /\ r.sample_size = n
                          /\ AccurateToTwoPlaces(r.reliability_percentage, k, n)
                          /\ r.data_period_start = last_call.start_date
                          /\ r.data_period_end = last_call.end_date

\* C6 (as claimed): the persisted percentage equals 100 * k / n exactly.
C6_ScoreEqualsQuotient ==
    last_call.kind = "reliability" =>
        \A h \in Hours, d \in DayTypes :
            LET idx == SnapshotsOf(last_call.station_id, h, d,
                                   last_call.start_date, last_call.end_date)
                n == Cardinality(idx)
                k == Cardinality(WithBikes(idx))
            IN  n >= MinSampleSize =>
                    /\ ScoreRows(last_call.station_id, h, d) # {}
                    /\ \A r \in ScoreRows(last_call.station_id, h, d) :
                          /\ r.sample_size = n
                          /\ r.reliability_percentage * n = 10000 * k

\* A recomputation returned for a station that has a key with 5 or more
\* snapshots in the window and a snapshot of the same hour before the window.
C6_Witness ==
    /\ last_call.kind = "reliability"
    /\ \E h \in Hours, d \in DayTypes :
          /\ Cardinality(SnapshotsOf(last_call.station_id, h, d,
                                     last_call.start_date, last_call.end_date)) >= MinSampleSize
          /\ \E i \in DOMAIN availability_snapshots :
                /\ availability_snapshots[i].station_id = last_call.station_id
                /\ availability_snapshots[i].hour = h
                /\ availability_snapshots[i].timestamp.day < last_call.start_date

\* C7: every row of reliability_scores and of hourly_availability_averages has
\* a sample size of at least 5, and every reliability percentage lies in
\* [0, 100].  (Rows are never deleted, and a written row is in its table in
\* the state after the write.)
C7_RowsAboveThreshold ==
    /\ \A r \in reliability_scores :
          /\ r.sample_size >= MinSampleSize
          /\ r.reliability_percentage >= 0
          /\ r.reliability_percentage <= 10000
    /\ \A r \in hourly_availability_averages : r.total_snapshots >= MinSampleSize

\* Both tables hold a row, one of them with the percentage 0 or 100.
C7_Witness ==
    /\ \E r \in reliability_scores :
          r.sample_size = MinSampleSize /\ r.reliability_percentage \in {0, 10000}
    /\ hourly_availability_averages # {}

----------------------------------------------------------------------------
(* Properties of the data seeder (under SpecSeeder) *)

\* C8 (as claimed): every run of sync_station_status and of
\* seed_initial_stations has made exactly one call of create_sync_log by the
\* time it returns, whatever failed on the way (feed, station lookup, store).
C8_OneLogWritePerRun ==
    last_run.op # "none" => last_run.log_attempts = 1

\* C9: when create_sync_log raises, the run still returns, with the success
\* flag, the counts and the errors it returns when the log write answers.
C9_LogFailureSwallowed ==
    (last_run.op # "none" /\ last_run.log_failed) =>
        /\ last_run.stats = last_run.twin
        /\ "unexpected" \notin {last_run.stats.errors[i] : i \in DOMAIN last_run.stats.errors}

\* A status sync that created snapshots returned while its log write raised.
C9_Witness ==
    /\ last_run.op = "sync"
    /\ last_run.log_failed
    /\ last_run.stats.snapshots_created > 0
    /\ last_run.stats.success
    /\ api_sync_logs = <<>>

\* C10: sync_station_status logs 'success' when it collected no error,
\* 'partial' when it collected errors and created at least one snapshot,
\* 'failed' otherwise; the success flag it returns is true exactly when that
\* status is 'success' or 'partial'.
C10_SyncStatusRule ==
    last_run.op = "sync" =>
        LET errors == last_run.stats.errors
            status == CASE errors = <<>> -> "success"
                        [] errors # <<>> /\ last_run.stats.snapshots_created > 0 -> "partial"
                        [] OTHER -> "failed"
        IN  /\ last_run.log_attempts > 0 => last_run.log.sync_status = status
            /\ last_run.stats.success = (status \in {"success", "partial"})

\* A status sync logged 'partial': one status failed validation, another
\* became a snapshot.
C10_Witness ==
    /\ last_run.op = "sync"
    /\ last_run.log.sync_status = "partial"
    /\ last_run.stats.success
    /\ last_run.stats.errors = <<"prepare">>
    /\ Len(api_sync_logs) > 0

----------------------------------------------------------------------------
(* Properties of overlapping aggregation passes (under SpecPasses) *)

\* C4 (as claimed): in every reachable state each of reliability_scores and
\* hourly_availability_averages holds at most one row per
\* (station_id, hour, day_type), however the select and insert/update
\* requests of overlapping passes interleave.
C4_OneRowPerKey ==
    \A s \in Stations, h \in Hours, d \in DayTypes :
        /\ Cardinality(ScoreRows(s, h, d)) <= 1
        /\ Cardinality(AverageRows(s, h, d)) <= 1

----------------------------------------------------------------------------
(* Properties of the background scheduler (under SpecScheduler) *)

ScheduledExecutions == {i \in DOMAIN executions : executions[i].origin = "scheduler"}

\* C1: at no time do two executions of 'station_status_collection' started
\* by the scheduler run at once, and a firing that finds one running starts
\* nothing, then or later: every firing so far either started its one
\* execution when it fired or was dropped, and the scheduler has started no
\* other execution.
C1_ScheduledRunsExclusive ==
    /\ Cardinality(ScheduledExecutions) <= 1
    /\ started + skipped = fired
    /\ Cardinality(ScheduledExecutions) <= started

\* A firing was dropped, the execution it met has finished since, and nothing
\* started in its place.
C1_Witness ==
    /\ skipped > 0
    /\ started = 1
    /\ executions = <<>>
    /\ is_running

\* C2 (as claimed): a manual trigger_job('station_status_collection') during
\* a running execution of _collect_station_status does not lead to two
\* executions of it running at once.
C2_CollectionRunsExclusive ==
    Len(executions) <= 1

\* The requests by which seed_initial_stations reconciles the directory.
ReconciliationRequests == {"create_stations_batch", "update_station"}

\* Every request b of the sequence comes after one of the requests in A.
ComesAfter(requests, A, b) ==
    \A i \in DOMAIN requests :
        requests[i] = b => \E j \in 1..(i - 1) : requests[j] \in A

\* Every request of A in the sequence comes before every request b.
AllBefore(requests, A, b) ==
    \A i, j \in DOMAIN requests :
        (requests[i] \in A /\ requests[j] = b) => i < j

\* C12 (as claimed): in a cycle of the collection job the station
\* reconciliation is over before the snapshots are inserted, and the snapshots
\* are inserted before the averages task is spawned.
C12_ReconcileIngestAggregate ==
    last_cycle.returned =>
        /\ ComesAfter(last_cycle.requests, ReconciliationRequests,
                      "create_availability_snapshots_batch")
        /\ AllBefore(last_cycle.requests, {"create_availability_snapshots_batch"},
                     "create_task")

\* C12 (amended): a cycle of the collection job reconciles no station; it
\* reads the directory before it inserts the snapshots, and the insert and the
\* write of the sync log are over before the averages task is spawned, which is
\* the last thing the cycle does.
C12_LookupIngestAggregate ==
    last_cycle.returned =>
        LET requests == last_cycle.requests
        IN  /\ \A i \in DOMAIN requests : requests[i] \notin ReconciliationRequests
            /\ ComesAfter(requests, {"get_all_stations"},
                          "create_availability_snapshots_batch")
            /\ AllBefore(requests, {"get_station_status", "get_all_stations",
                                    "create_availability_snapshots_batch",
                                    "create_sync_log"}, "create_task")
            /\ \A i \in DOMAIN requests : requests[i] = "create_task" => i = Len(requests)

C12_Witness ==
    last_cycle.requests = <<"get_station_status", "get_all_stations",
                            "create_availability_snapshots_batch", "create_sync_log",
                            "create_task">>


\* Execution i of _collect_station_status returns in this step.
CycleReturns(i) ==
    /\ executions[i].pc = "close"
    /\ executions' = RemoveAt(executions, i)
    /\ is_running' = is_running

\* C13: an execution of _collect_station_status that returns spawns one
\* averages task when the sync returned success and none when it did not, the
\* task has not run when the execution returns, and nothing else spawns one.
C13_OneTaskPerSuccessfulCycle ==
    [][/\ \A i \in DOMAIN executions :
             CycleReturns(i) =>
                 IF executions[i].success
                 THEN /\ Len(tasks') = Len(tasks) + 1
                      /\ SubSeq(tasks', 1, Len(tasks)) = tasks
                      /\ tasks'[Len(tasks')].pc = "pending"
                 ELSE tasks' = tasks
       /\ Len(tasks') > Len(tasks) => \E i \in DOMAIN executions : CycleReturns(i)
      ]_vars

\* A successful cycle has returned and the task it spawned has not run yet.
C13_Witness ==
    /\ last_cycle.returned
    /\ last_cycle.success
    /\ last_cycle.spawned = 1
    /\ executions = <<>>
    /\ Len(tasks) = 1
    /\ tasks[1].pc = "pending"


\* A step of an averages task: it moves on or ends.
TaskStep == tasks' # tasks /\ Len(tasks') <= Len(tasks)

\* C14: whatever fails inside _update_hourly_averages_async (the listing of
\* the stations, a station's aggregation, an upsert), no step of the task lets
\* an exception out of it, and none changes the result the collection run
\* returned, the sync log rows already written or the executions in progress.
C14_PassFailureContained ==
    [][TaskStep => /\ ~last_pass'.escaped
                   /\ last_cycle' = last_cycle
                   /\ api_sync_logs' = api_sync_logs
                   /\ executions' = executions
      ]_vars

\* A pass has failed at the listing of the stations, after the cycle that
\* spawned it returned success and wrote its log row.
C14_Witness ==
    /\ last_pass.outcome = "failed"
    /\ last_cycle.returned
    /\ last_cycle.result.success
    /\ api_sync_logs # <<>>


\* C27: availability snapshots are append-only.  No step of the scheduler's
\* jobs (collection cycles, the averages passes they spawn, the maintenance
\* job, manual triggers, start and stop) changes or removes a persisted
\* snapshot: the table before the step is the beginning of the table after it.
C27_SnapshotsAppendOnly ==
    [][/\ Len(availability_snapshots') >= Len(availability_snapshots)
       /\ SubSeq(availability_snapshots', 1, Len(availability_snapshots))
             = availability_snapshots
      ]_vars

\* A cycle has appended a snapshot to the four the store held, an averages
\* pass has written rows from them, and a job was triggered by hand.
C27_Witness ==
    /\ Len(availability_snapshots) > MinSampleSize - 1
    /\ hourly_availability_averages # {}
    /\ triggers > 0

----------------------------------------------------------------------------
(* Properties of the snapshots of a cycle (under SpecSeeder) *)

\* C17: every snapshot a cycle inserts carries the cycle's one start_time, its
\* hour, its ISO weekday (1 = Monday .. 7 = Sunday) and the first minute of its
\* quarter of the hour, one of 0, 15, 30, 45; so all snapshots of a cycle agree
\* in these fields, and the snapshots are the last rows of the table.
C17_SnapshotsShareTimeFields ==
    last_run.op = "sync" =>
        LET start_time == last_run.inputs.start_time
            created == last_run.created
            before == Len(availability_snapshots) - Len(created)
        IN  /\ before >= 0
            /\ \A i \in DOMAIN created :
                  /\ availability_snapshots[before + i] = created[i]
                  /\ created[i].timestamp = start_time
                  /\ created[i].hour = start_time.hour
                  /\ created[i].day_of_week \in 1..7
                  /\ (start_time.day - created[i].day_of_week) % 7 = 0
                  /\ created[i].minute_slot \in {0, 15, 30, 45}
                  /\ created[i].minute_slot <= start_time.minute
                  /\ start_time.minute < created[i].minute_slot + 15

\* A cycle of a Monday at 08:59 has inserted two snapshots, after a cycle of
\* another quarter.
C17_Witness ==
    /\ last_run.op = "sync"
    /\ Len(last_run.created) = 2
    /\ last_run.inputs.start_time = [day |-> 8, hour |-> 8, minute |-> 59]
    /\ last_run.created[1].day_of_week = 1
    /\ last_run.created[2].minute_slot = 45
    /\ Len(availability_snapshots) > 2
    /\ availability_snapshots[1].minute_slot = 0

\* The statuses of the feed whose station_id is the external id of a
\* persisted station.
KnownStatuses(station_statuses) ==
    SelectSeq(station_statuses,
              LAMBDA status : \E s \in bike_stations :
                                 s.external_station_id = status.station_id)

\* C19: a status whose station_id matches no persisted station yields no
\* snapshot and no error, and leaves the rest of the run as it is: the run
\* inserts the snapshots, returns the stats and logs the row of the same run
\* over the feed without such statuses.
C19_UnknownStationSkipped ==
    (last_run.op = "sync" /\ last_run.inputs.feed.ok) =>
        LET inputs == last_run.inputs
            known == SyncStationStatusRun(bike_stations, inputs.start_time,
                                          Fetched(KnownStatuses(inputs.feed.data)),
                                          ~inputs.lookup_failed, ~inputs.insert_failed,
                                          ~last_run.log_failed)
        IN  /\ last_run.created = known.created
            /\ last_run.stats = known.stats
            /\ last_run.log_attempts = known.log_attempts
            /\ last_run.log = known.log
            /\ \A i \in DOMAIN last_run.created :
                  \E s \in bike_stations : s.id = last_run.created[i].station_id

\* A feed with a status of no persisted station and a status of a persisted
\* one: the latter is inserted and the run is logged as a success.
C19_Witness ==
    /\ last_run.op = "sync"
    /\ last_run.inputs.feed.ok
    /\ Len(KnownStatuses(last_run.inputs.feed.data)) < Len(last_run.inputs.feed.data)
    /\ Len(last_run.created) = 1
    /\ last_run.stats.errors = <<>>
    /\ last_run.log.sync_status = "success"
    /\ last_run.stats.success

\* How often a request occurs among the requests of a run.
Occurrences(requests, request) ==
    Cardinality({i \in DOMAIN requests : requests[i] = request})

OtherStations(inputs) ==
    {inputs.feed.data[i] : i \in {k \in DOMAIN inputs.feed.data :
                                     inputs.feed.data[k].station_id \notin inputs.item_failed}}

PersistedExternally(stations, external_id) ==
    \E r \in stations : r.external_station_id = external_id

----------------------------------------------------------------------------
(* Properties of the hourly fallback (under SpecAgg) *)

\* The (hour, day_type, total_snapshots) of the station's persisted averages.
PersistedAverageKeys(station_id) ==
    {<<r.hour, r.day_type, r.total_snapshots>> :
        r \in {r \in hourly_availability_averages : r.station_id = station_id}}

\* The same of the rows the fast path upserts from the procedure's answer.
FastAverageKeys(station_id) ==
    LET fast == FastAverages(availability_snapshots, station_id)
    IN  {<<fast[i].hour, fast[i].day_type, fast[i].total_snapshots>> : i \in DOMAIN fast}

\* C16 (as claimed): when the store-side procedure fails,
\* calculate_hourly_averages does not fail, and the keys and total_snapshots it
\* persists are those of the fast path, keys below the threshold suppressed.
C16_FallbackNeverFails ==
    /\ ~(last_call.raised = "hourly" /\ ~last_call.rpc)
    /\ (last_call.kind = "hourly" /\ ~last_call.rpc) =>
           PersistedAverageKeys(last_call.station_id) = FastAverageKeys(last_call.station_id)

\* C16 (amended): when the store-side procedure fails and the requests of the
\* fallback answer, calculate_hourly_averages returns normally, and the keys
\* and total_snapshots it persists are those of the fast path, keys below the
\* threshold suppressed.
C16_FallbackMatchesFastPath ==
    (last_call.kind = "hourly" /\ ~last_call.rpc) =>
        /\ last_call.ok
        /\ PersistedAverageKeys(last_call.station_id) = FastAverageKeys(last_call.station_id)
        /\ \A k \in PersistedAverageKeys(last_call.station_id) : k[3] >= MinSampleSize

\* The fallback has returned for a station with a key it persisted and a key
\* it suppressed.
C16_Witness ==
    /\ last_call.kind = "hourly"
    /\ ~last_call.rpc
    /\ PersistedAverageKeys(last_call.station_id) # {}
    /\ \E i \in DOMAIN availability_snapshots :
          /\ availability_snapshots[i].station_id = last_call.station_id
          /\ \A k \in PersistedAverageKeys(last_call.station_id) :
                <<k[1], k[2]>> # GroupKey(availability_snapshots[i])

\* The ISO weekdays.
DaysOfWeek == 1..7

\* C18: the day type is total and exclusive, 'weekday' for the days 1..5 and
\* 'weekend' for 6 and 7, and the reliability path and the hourly fallback
\* classify alike: every persisted row carries one of the two types, and the
\* sample size of a row either path has written counts the snapshots of its
\* hour whose day_of_week falls on the row's side of that division.
C18_DayTypeTotalAndShared ==
    /\ \A day_of_week \in DaysOfWeek :
          /\ DayTypeOf(day_of_week) \in DayTypes
          /\ (DayTypeOf(day_of_week) = "weekday") = (day_of_week <= 5)
          /\ (DayTypeOf(day_of_week) = "weekend") = (day_of_week >= 6)
          /\ FallbackDayTypeOf(day_of_week) = DayTypeOf(day_of_week)
    /\ \A r \in reliability_scores \cup hourly_availability_averages :
          r.day_type \in DayTypes
    /\ (last_call.kind = "hourly" /\ ~last_call.rpc) =>
          \A r \in hourly_availability_averages :
              r.station_id = last_call.station_id =>
                  r.total_snapshots =
                      Cardinality(SnapshotsOf(r.station_id, r.hour, r.day_type, 0, today))
    /\ last_call.kind = "reliability" =>
          \A r \in reliability_scores :
              (/\ r.station_id = last_call.station_id
               /\ r.data_period_start = last_call.start_date
               /\ r.data_period_end = last_call.end_date) =>
                  r.sample_size =
                      Cardinality(SnapshotsOf(r.station_id, r.hour, r.day_type,
                                              last_call.start_date, last_call.end_date))

\* The fallback has written a weekend row from the snapshots of a Saturday,
\* and the reliability path has written a weekend row too.
C18_Witness ==
    /\ last_call.kind = "hourly"
    /\ ~last_call.rpc
    /\ \E r \in hourly_availability_averages :
          /\ r.station_id = last_call.station_id
          /\ r.day_type = "weekend"
          /\ \E i \in SnapshotsOf(r.station_id, r.hour, r.day_type, 0, today) :
                availability_snapshots[i].day_of_week = 6
    /\ \E r \in reliability_scores : r.day_type = "weekend"

----------------------------------------------------------------------------
(* Properties of one averages pass (under SpecRecompute) *)

\* ceil(n / batch_size)
TotalBatches(n) == (n + batch_size - 1) \div batch_size

\* C15: the failure of one station's calculate_hourly_averages cancels or
\* skips no other station and no later batch: a pass that listed its stations
\* never fails, it runs every listed station to completion through all its
\* batches, and its error list holds one entry per failed station.
C15_FailureSparesSiblings ==
    /\ last_pass.outcome = "failed" => last_pass.listed = 0
    /\ last_pass.outcome = "completed" =>
           /\ last_pass.completed = last_pass.listed
           /\ last_pass.batches = TotalBatches(last_pass.listed)
           /\ last_pass.errors = last_pass.failures
    /\ \A t \in DOMAIN tasks :
           tasks[t].pc \in {"gather", "sleep"} =>
               /\ tasks[t].completed + Len(tasks[t].batch) + Len(tasks[t].rest)
                      = tasks[t].listed
               /\ tasks[t].errors + CountExceptions(tasks[t].results) = tasks[t].failures

\* A station of the first batch has failed, the batch was run to its end and
\* a station of the second batch has run.
C15_Witness ==
    \E t \in DOMAIN tasks :
        /\ tasks[t].batches = 1
        /\ tasks[t].errors > 0
        /\ tasks[t].errors < batch_size
        /\ tasks[t].completed > batch_size


----------------------------------------------------------------------------
(* Properties of the feed client (under SpecClient) *)

\* The fetch the client returned from last went out on an open session and
\* was answered by a 2xx response.
Answered2xx ==
    /\ client.last.operation # "none"
    /\ client.last.session = "open"
    /\ client.last.response.network_ok
    /\ client.last.response.status_code \in 200..299

\* C23: every failure of a fetch operation is a MevoApiError: a fetch raises
\* nothing else, and it raises MevoApiError when called before the session
\* was opened (issuing no request then), on a network error, on a status that
\* is not 2xx, and on a document without the key 'data'.
C23_SingleErrorKind ==
    client.last.operation # "none" =>
        LET last == client.last
        IN  /\ last.raised \in {"none", "MevoApiError"}
            /\ last.session = "none" =>
                  last.raised = "MevoApiError" /\ last.requests = 0
            /\ (last.session = "open" /\ ~last.response.network_ok) =>
                  last.raised = "MevoApiError"
            /\ (/\ last.session = "open"
                /\ last.response.network_ok
                /\ last.response.status_code \notin 200..299) =>
                  last.raised = "MevoApiError"
            /\ (Answered2xx /\ last.response.body.json_ok
                            /\ ~last.response.body.has_data) =>
                  last.raised = "MevoApiError"

\* A station fetch met a document whose data has no key 'stations' and raised
\* MevoApiError after its one request.
C23_Witness ==
    /\ Answered2xx
    /\ client.last.operation = "get_station_information"
    /\ client.last.response.body.has_data
    /\ ~client.last.response.body.has_stations
    /\ client.last.raised = "MevoApiError"
    /\ client.last.requests = 1

\* The records of a feed document that parse, in the order of the document.
RECURSIVE WellFormed(_, _)
WellFormed(operation, records) ==
    IF records = <<>> THEN <<>>
    ELSE LET record == Head(records)
         IN  (IF record.mapping /\ RequiredKeys(operation) \subseteq record.keys
              THEN <<Parsed(operation, record)>> ELSE <<>>)
             \o WellFormed(operation, Tail(records))

\* C24: get_station_information and get_station_status skip the records that
\* do not parse: on a document that lists stations the call returns, and it
\* returns exactly the well-formed records in the order of the document.
C24_MalformedRecordsSkipped ==
    (/\ Answered2xx
     /\ client.last.operation \in {"get_station_information", "get_station_status"}
     /\ client.last.response.body.has_stations) =>
        /\ client.last.raised = "none"
        /\ client.last.data = WellFormed(client.last.operation,
                                         client.last.response.body.stations)

\* C30 as stated: every call of a fetch operation issues exactly one request.
C30_ExactlyOneRequest ==
    client.last.operation # "none" => client.last.requests = 1

\* C30, amended: a fetch makes at most one attempt.  Called on an open
\* session it issues exactly one request, whether that request fails or not;
\* called before the session was opened or after it was closed it issues
\* none; so the client never issues more requests than it had calls.
C30_AtMostOneAttempt ==
    /\ client.last.operation # "none" =>
          client.last.requests = (IF client.last.session = "open" THEN 1 ELSE 0)
    /\ client.requests <= client.calls

\* A fetch on an open session met a network error: it raised after its one
\* request.
C30_Witness ==
    /\ client.last.operation # "none"
    /\ client.last.session = "open"
    /\ ~client.last.response.network_ok
    /\ client.last.raised = "MevoApiError"
    /\ client.last.requests = 1
    /\ client.requests = 1

----------------------------------------------------------------------------
(* Properties of calculate_reliability_scores (under SpecScores) *)

\* C28: a calculate_reliability_scores call with days_back outside 1..365 is
\* rejected: it raises, processes no station and leaves the table of
\* reliability scores as it was.
C28_OutOfRangeRejected ==
    (/\ last_call.kind = "scores"
     /\ last_call.days_back \notin MinDaysBack..MaxDaysBack) =>
        /\ ~last_call.ok
        /\ last_call.result.stations_processed = 0
        /\ reliability_scores = prev_scores

\* The score rows the stations of a call that did not fail yield.
RECURSIVE ScoresOfOthers(_, _)
ScoresOfOthers(call, i) ==
    IF i > Len(call.stations) THEN 0
    ELSE (IF call.stations[i] \in call.failed THEN 0
          ELSE Len(StationScores(availability_snapshots, call.stations[i],
                                 call.start_date, call.end_date)))
         + ScoresOfOthers(call, i + 1)

\* C29: a calculate_reliability_scores call that read its stations returns
\* a result whatever station fails: every failed station is one entry of
\* errors and keeps the rows it had, every other station is processed (its
\* scores are counted and persisted with the window of the call),
\* stations_processed counts them all, and success says that errors is empty.
C29_StationFailureCollected ==
    (last_call.kind = "scores" /\ last_call.ok) =>
        LET result == last_call.result
        IN  /\ result.stations_processed = Len(last_call.stations)
            /\ Len(result.errors) = Cardinality(last_call.failed)
            /\ \A s \in last_call.failed :
                  /\ \E i \in DOMAIN result.errors : result.errors[i] = s
                  /\ \A r \in prev_scores : r.station_id = s => r \in reliability_scores
            /\ result.success <=> (result.errors = <<>>)
            /\ result.scores_calculated = ScoresOfOthers(last_call, 1)
            /\ \A i \in DOMAIN last_call.stations :
                  last_call.stations[i] \notin last_call.failed =>
                      LET scores == StationScores(availability_snapshots,
                                                  last_call.stations[i],
                                                  last_call.start_date, last_call.end_date)
                      IN  \A k \in DOMAIN scores :
                              \E r \in reliability_scores :
                                  /\ SameKey(r, scores[k])
                                  /\ r.reliability_percentage = scores[k].reliability_percentage
                                  /\ r.sample_size = scores[k].sample_size
                                  /\ r.data_period_start = last_call.start_date
                                  /\ r.data_period_end = last_call.end_date

\* A call over both stations in which the calculation of station 1 raised:
\* it returned with one error and success false, and station 2, reached after
\* station 1, has its score row.
C29_Witness ==
    /\ last_call.kind = "scores"
    /\ last_call.ok
    /\ last_call.stations = <<1, 2>>
    /\ last_call.failed = {1}
    /\ last_call.result.errors = <<1>>
    /\ ~last_call.result.success
    /\ last_call.result.scores_calculated = 1
    /\ \E r \in reliability_scores : r.station_id = 2
    /\ prev_scores = {}

----------------------------------------------------------------------------
(* Properties of get_combined_station_data (under SpecCombined) *)

\* The status fields of an entry of the combined list.
StatusFieldsOf(entry) == [f \in DOMAIN DefaultStatus \ {"last_reported_datetime"} |-> entry[f]]

\* C31: a get_combined_station_data that returns, returns one entry per
\* station of the directory, in the order of the directory; the entry of a
\* station with a status record of its station_id carries the status fields
\* of such a record, the entry of a station without one the default status;
\* and no entry stands for a station the directory does not list.
C31_OneEntryPerDirectoryStation ==
    (client.combined.called /\ client.combined.raised = "none") =>
        LET stations == client.combined.stations
            statuses == client.combined.statuses
            data == client.combined.data
        IN  /\ Len(data) = Len(stations)
            /\ \A i \in DOMAIN stations :
                  /\ data[i].station_id = stations[i].station_id
                  /\ data[i].capacity = stations[i].capacity
                  /\ IF \E k \in DOMAIN statuses : statuses[k].station_id = stations[i].station_id
                     THEN \E k \in DOMAIN statuses :
                              /\ statuses[k].station_id = stations[i].station_id
                              /\ StatusFieldsOf(data[i]) = StatusFieldsOf(statuses[k])
                     ELSE StatusFieldsOf(data[i]) = StatusFieldsOf(DefaultStatus)
            /\ \A k \in DOMAIN statuses :
                  (\A i \in DOMAIN stations : stations[i].station_id # statuses[k].station_id)
                      => \A i \in DOMAIN data : data[i].station_id # statuses[k].station_id

\* A directory of A and C met statuses of D and of A: the list has the entry
\* of A with the status of A, then the entry of C with the default status,
\* and none of D.
C31_Witness ==
    /\ client.combined.called
    /\ client.combined.raised = "none"
    /\ Len(client.combined.stations) = 2
    /\ client.combined.stations[1].station_id = "A"
    /\ client.combined.stations[2].station_id = "C"
    /\ Len(client.combined.statuses) = 2
    /\ client.combined.statuses[1].station_id = "D"
    /\ client.combined.statuses[2].station_id = "A"
    /\ Len(client.combined.data) = 2
    /\ client.combined.data[1].station_id = "A"
    /\ client.combined.data[1].num_bikes_available = 3
    /\ client.combined.data[1].num_docks_available = 7
    /\ client.combined.data[1].last_reported = 5
    /\ client.combined.data[2].station_id = "C"
    /\ client.combined.data[2].num_bikes_available = 0
    /\ ~client.combined.data[2].is_installed
    /\ client.combined.requests = 2

----------------------------------------------------------------------------
(* Properties of the scheduler's passes and lifecycle (under SpecScheduler) *)

\* The averages tasks that have read their stations and are at a batch.
TasksAtBatch == {t \in DOMAIN tasks : tasks[t].pc = "gather"}

\* C32: as long as no trigger_job was called, no two averages passes are
\* under way at once: the tasks spawned by the cycles of the interval trigger
\* follow one another, so no two of them are at a batch of the same station
\* together.
C32_ScheduledPassesNeverOverlap ==
    triggers = 0 =>
        \A t, u \in TasksAtBatch :
            t # u => Head(tasks[t].batch) # Head(tasks[u].batch)

\* C33: once stop has returned, and until the scheduler is started again,
\* no execution the scheduler started and no averages task is left running,
\* so none of them writes to the store any more.
C33_NothingRunsAfterStop ==
    ~is_running =>
        /\ tasks = <<>>
        /\ \A i \in DOMAIN executions : executions[i].origin # "scheduler"

----------------------------------------------------------------------------
(* Properties of reconciliation runs (under SpecReconcile) *)

\* C34: after any sequence of reconciliation runs no two persisted stations
\* share their external_station_id, whatever the fetched directories list.
C34_ExternalIdUnique ==
    \A s, t \in bike_stations :
        s.external_station_id = t.external_station_id => s.id = t.id

----------------------------------------------------------------------------
(* Properties of the runs of the seeder as their caller sees them (under SpecSeeder) *)

\* The counts of the result of a run.
CountsOf(run) ==
    IF run.op = "sync"
    THEN <<run.stats.stations_processed, run.stats.snapshots_created>>
    ELSE <<run.stats.stations_fetched, run.stats.stations_created,
           run.stats.stations_updated, run.stats.stations_skipped>>

\* The run ended before it computed a status: the fetch of its feed failed,
\* or its batch processing raised.
EndedBeforeStatus(run) == ~run.inputs.feed.ok \/ run.inputs.lookup_failed

\* C35: sync_station_status and seed_initial_stations return their result
\* whatever the feed and the store did; a run that ended before it computed a
\* status (its fetch failed, or its batch processing raised) returns
\* success = false, at least one error and all counts zero, and has written
\* no log entry.
C35_RunsReturnTheirFailures ==
    last_run.op # "none" =>
        /\ {"success", "errors"} \subseteq DOMAIN last_run.stats
        /\ EndedBeforeStatus(last_run) =>
              /\ ~last_run.stats.success
              /\ last_run.stats.errors # <<>>
              /\ \A i \in DOMAIN CountsOf(last_run) : CountsOf(last_run)[i] = 0
              /\ last_run.log_attempts = 0
        /\ ~EndedBeforeStatus(last_run) => last_run.log_attempts = 1

\* A status sync whose feed answered, over a directory that holds the station
\* of the status, ended on the failed read of the stations: it returned one
\* error and no count.
C35_Witness ==
    /\ last_run.op = "sync"
    /\ last_run.inputs.feed.ok
    /\ last_run.inputs.feed.data # <<>>
    /\ last_run.inputs.lookup_failed
    /\ \E s \in bike_stations : s.external_station_id = last_run.inputs.feed.data[1].station_id
    /\ ~last_run.stats.success
    /\ Len(last_run.stats.errors) = 1
    /\ last_run.stats.stations_processed = 0

\* The executions under way that the scheduler submitted.
SubmittedExecutions == {i \in DOMAIN executions : executions[i].origin = "scheduler"}

\* C36: through every sequence of start and stop calls is_running tells
\* whether a scheduler exists; a scheduler that exists holds exactly the two
\* jobs of start(), each once under its id, and is the one that submitted the
\* scheduled executions under way (a start() of a running scheduler has built
\* no second one); without a scheduler nothing of a scheduler is left.
C36_SchedulerLifecycle ==
    /\ is_running <=> scheduler.exists
    /\ scheduler.exists =>
          /\ scheduler.jobs = {"station_status_collection", "data_maintenance"}
          /\ scheduler.instances = Cardinality(SubmittedExecutions)
    /\ ~scheduler.exists => scheduler = NoScheduler /\ SubmittedExecutions = {}

\* The scheduler runs again after a stop: an execution it had started was
\* cancelled by the stop (it neither runs nor has returned), and the
\* scheduler of the second start holds the two jobs anew.
C36_Witness ==
    /\ is_running
    /\ scheduler.exists
    /\ scheduler.jobs = {"station_status_collection", "data_maintenance"}
    /\ started = 1
    /\ executions = <<>>
    /\ ~last_cycle.returned
    /\ triggers = 0

----------------------------------------------------------------------------
(* Properties of trigger_job (under SpecTrigger) *)

\* The trigger_job that was called last.
LastTrigger == IF "trigger" \in DOMAIN last_cycle THEN last_cycle.trigger ELSE NoTrigger

\* C37: a trigger_job called while the scheduler is not running, or with a
\* job id that is no registered job, raises and executes no job function;
\* trigger_job('reliability_calculation') therefore raises "not found"
\* whenever the scheduler runs and never comes to its reliability branch.
C37_TriggerRaisesWithoutJob ==
    LastTrigger.job_id # "none" =>
        /\ (~LastTrigger.running
              \/ LastTrigger.job_id \notin {"station_status_collection", "data_maintenance"}) =>
              /\ LastTrigger.raised # "none"
              /\ LastTrigger.executed = "none"
              /\ LastTrigger.created = <<>>
              /\ ~LastTrigger.spawns
        /\ ~LastTrigger.running => LastTrigger.raised = "Scheduler is not running"
        /\ (LastTrigger.running /\ LastTrigger.job_id = "reliability_calculation") =>
              LastTrigger.raised = "Job not found"
        /\ LastTrigger.executed # "reliability_calculation"

\* trigger_job('reliability_calculation') on a running scheduler raised "not
\* found" and left the tables and the tasks alone.
C37_Witness ==
    /\ LastTrigger.job_id = "reliability_calculation"
    /\ LastTrigger.running
    /\ is_running
    /\ LastTrigger.raised = "Job not found"
    /\ LastTrigger.executed = "none"
    /\ triggers = 1
    /\ tasks = <<>>
    /\ api_sync_logs = <<>>

\* C38: a trigger_job that returns success = true has executed a job whose
\* own result is a success: a collection run that returned success = false
\* is reported with success = false.
C38_TriggerSuccessIsJobSuccess ==
    (/\ LastTrigger.raised = "none"
     /\ LastTrigger.executed = "_collect_station_status") =>
        (LastTrigger.value.success => LastTrigger.value.result.success)

----------------------------------------------------------------------------
(* Properties of the reconciler's counts (under SpecSeeder) *)

\* C39: a reconciliation over a fetched directory counts every fetched
\* station once: as skipped when its lookup, its record or its update
\* failed, as updated when it was persisted before the run, as created when
\* it was not; a batch create that fails leaves created at zero, counts the
\* new stations as skipped and adds one error.  The three counts sum up to
\* the number of fetched stations.
C39_ReconciliationAccounting ==
    [][(/\ runs' = runs + 1
        /\ last_run'.op = "seed"
        /\ last_run'.inputs.feed.ok) =>
          LET stats == last_run'.stats
              fetched == last_run'.inputs.feed.data
              create_failed == last_run'.inputs.create_failed
              Known(i) == \E s \in bike_stations :
                              s.external_station_id = fetched[i].station_id
              failed == {i \in DOMAIN fetched :
                            fetched[i].station_id \in last_run'.inputs.item_failed}
              new == {i \in DOMAIN fetched \ failed : ~Known(i)}
              old == {i \in DOMAIN fetched \ failed : Known(i)}
          IN  /\ stats.stations_fetched = Len(fetched)
              /\ stats.stations_created = (IF create_failed THEN 0 ELSE Cardinality(new))
              /\ stats.stations_updated = Cardinality(old)
              /\ stats.stations_skipped =
                    Cardinality(failed) + (IF create_failed THEN Cardinality(new) ELSE 0)
              /\ stats.stations_created + stats.stations_updated + stats.stations_skipped
                    = Len(fetched)
              /\ Occurrences(stats.errors, "create") = (IF create_failed THEN 1 ELSE 0)
              /\ create_failed => new # {}]_vars

\* A reconciliation fetched two stations the store did not hold and its batch
\* create failed: none created, both skipped, one error.
C39_Witness ==
    /\ last_run.op = "seed"
    /\ last_run.inputs.feed.ok
    /\ last_run.inputs.create_failed
    /\ last_run.inputs.item_failed = {}
    /\ last_run.stats.stations_fetched = 2
    /\ last_run.stats.stations_created = 0
    /\ last_run.stats.stations_updated = 0
    /\ last_run.stats.stations_skipped = 2
    /\ Occurrences(last_run.stats.errors, "create") = 1

----------------------------------------------------------------------------
(* Properties of a whole averages pass (under SpecRecomputeFair) *)

\* The active stations of the directory, in the order the pass reads them.
Listed == ActiveStationIds(bike_stations)

\* A pass under way is at batch number batches + 1 of its list: the stations
\* it has still to run are the end of the list, those before them have run
\* once each, the batch at hand holds at most batch_size stations and begins
\* where the batches before it ended, and the pass has slept once after each
\* batch it finished; it sleeps only with a batch left to run.
PassInOrder(task) ==
    /\ task.listed = Len(Listed)
    /\ task.batch \o task.rest = SubSeq(Listed, task.completed + 1, Len(Listed))
    /\ \A i \in DOMAIN Listed : \E s \in bike_stations : s.id = Listed[i] /\ s.is_active
    /\ Len(task.batch) <= batch_size
    /\ task.sleeps = task.batches
    /\ task.pc = "gather" =>
          /\ task.batch # <<>>
          /\ task.completed >= task.batches * batch_size
          /\ Len(task.rest) = (IF task.listed > (task.batches + 1) * batch_size
                               THEN task.listed - (task.batches + 1) * batch_size ELSE 0)
    /\ task.pc = "sleep" =>
          /\ task.batch = <<>>
          /\ task.rest # <<>>
          /\ task.completed = task.batches * batch_size

\* A pass that ended after reading its n stations has run n stations in
\* ceil(n / batch_size) batches and has slept between them only.
PassComplete ==
    (last_pass.outcome # "none" /\ last_pass.listed > 0) =>
        /\ last_pass.outcome = "completed"
        /\ last_pass.listed = Len(Listed)
        /\ last_pass.completed = last_pass.listed
        /\ last_pass.batches = TotalBatches(last_pass.listed)
        /\ last_pass.sleeps = last_pass.batches - 1

\* C40: a pass over the n active stations of the directory ends; it runs
\* ceil(n / 10) batches of at most 10 stations one after the other, runs
\* calculate_hourly_averages once for each active station and for no
\* inactive one, and sleeps after every batch but the last.
C40_PassTerminatesInBatches ==
    /\ [](\A t \in DOMAIN tasks : tasks[t].pc \in {"gather", "sleep"} => PassInOrder(tasks[t]))
    /\ []PassComplete
    /\ <>(tasks = <<>> /\ last_pass.outcome # "none")

\* A pass over more stations than a batch holds has completed: two batches,
\* one sleep, every active station run, next to an inactive station.
C40_Witness ==
    /\ tasks = <<>>
    /\ last_pass.outcome = "completed"
    /\ last_pass.listed > batch_size
    /\ last_pass.completed = last_pass.listed
    /\ last_pass.batches = 2
    /\ last_pass.sleeps = 1
    /\ \E s \in bike_stations : ~s.is_active

====
